---- MODULE Spec2Model ----
(***************************************************************************)
(* PocketGNU service worker (sw.js): install / activate lifecycle, the     *)
(* fetch interceptor with its five caching strategies, and the metrics     *)
(* counters of PerformanceMonitor.                                         *)
(*                                                                         *)
(* URLs are sequences of one-character strings so that the regular         *)
(* expressions of CACHE_PATTERNS are evaluated on the text of the URL.     *)
(* Every await of the source is a separate step of the request it belongs  *)
(* to; the synchronous code between two awaits is one atomic action.       *)
(***************************************************************************)
EXTENDS Naturals, Integers, Sequences, FiniteSets, TLC

(***************************************************************************)
(* Bounds of the model                                                     *)
(***************************************************************************)
\* number of fetch events dispatched to the worker in one behaviour
MaxReq == 2

\* number of periodicsync events dispatched to the worker in one behaviour
MaxSync == 2

\* number of days that pass in one behaviour
MaxDays == 1

\* number of message events dispatched to the worker in one behaviour
MaxMsg == 2

\* number of fetch, message and periodicsync events together in one
\* behaviour of the worker with all its listeners
MaxEvents == 3

(***************************************************************************)
(* Text constants                                                          *)
(***************************************************************************)
\* "https://pg.io"
ORIGIN ==
    <<"h","t","t","p","s",":","/","/","p","g",".","i","o">>
\* "https://fonts.googleapis.com"
FONTS_API ==
    <<"h","t","t","p","s",":","/","/","f","o","n","t","s",".","g","o","o","g","l","e","a","p","i","s",".","c","o","m">>
\* "https://fonts.gstatic.com"
FONTS_STATIC ==
    <<"h","t","t","p","s",":","/","/","f","o","n","t","s",".","g","s","t","a","t","i","c",".","c","o","m">>
\* "/"
P_ROOT ==
    <<"/">>
\* "/index.html"
P_INDEX ==
    <<"/","i","n","d","e","x",".","h","t","m","l">>
\* "/css/critical.css"
P_CRITICAL_CSS ==
    <<"/","c","s","s","/","c","r","i","t","i","c","a","l",".","c","s","s">>
\* "/js/errorHandler.js"
P_ERRORHANDLER_JS ==
    <<"/","j","s","/","e","r","r","o","r","H","a","n","d","l","e","r",".","j","s">>
\* "/js/utils.js"
P_UTILS_JS ==
    <<"/","j","s","/","u","t","i","l","s",".","j","s">>
\* "/js/scripts.js"
P_SCRIPTS_JS ==
    <<"/","j","s","/","s","c","r","i","p","t","s",".","j","s">>
\* "/css/styles.css"
P_STYLES_CSS ==
    <<"/","c","s","s","/","s","t","y","l","e","s",".","c","s","s">>
\* "/css2?family=Inter:wght@300;400;500;600;700&display=swap"
P_FONT_CSS2 ==
    <<"/","c","s","s","2","?","f","a","m","i","l","y","=","I","n","t","e","r",":","w","g","h","t","@","3","0","0",";","4","0","0",";","5","0","0",";","6","0","0",";","7","0","0","&","d","i","s","p","l","a","y","=","s","w","a","p">>
\* "/img/logo.png"
P_LOGO_PNG ==
    <<"/","i","m","g","/","l","o","g","o",".","p","n","g">>
\* "/s/inter.woff2"
P_WOFF2 ==
    <<"/","s","/","i","n","t","e","r",".","w","o","f","f","2">>
\* "/icon.png"
P_ICON_PNG ==
    <<"/","i","c","o","n",".","p","n","g">>
\* "/s/a.js"
P_A_JS ==
    <<"/","s","/","a",".","j","s">>
\* "/img/photo.jpeg"
P_PHOTO_JPEG ==
    <<"/","i","m","g","/","p","h","o","t","o",".","j","p","e","g">>
\* "/img/pic.jpg"
P_PIC_JPG ==
    <<"/","i","m","g","/","p","i","c",".","j","p","g">>
\* "/img/anim.gif"
P_ANIM_GIF ==
    <<"/","i","m","g","/","a","n","i","m",".","g","i","f">>
\* "/img/mark.svg"
P_MARK_SVG ==
    <<"/","i","m","g","/","m","a","r","k",".","s","v","g">>
\* "/img/hero.webp"
P_HERO_WEBP ==
    <<"/","i","m","g","/","h","e","r","o",".","w","e","b","p">>
\* ".js"
EXT_JS ==
    <<".","j","s">>
\* ".css"
EXT_CSS ==
    <<".","c","s","s">>
\* ".png"
EXT_PNG ==
    <<".","p","n","g">>
\* ".jpg"
EXT_JPG ==
    <<".","j","p","g">>
\* ".jpeg"
EXT_JPEG ==
    <<".","j","p","e","g">>
\* ".svg"
EXT_SVG ==
    <<".","s","v","g">>
\* ".gif"
EXT_GIF ==
    <<".","g","i","f">>
\* ".webp"
EXT_WEBP ==
    <<".","w","e","b","p">>

\* "chrome-extension://e/a.js"
EXTENSION_URL ==
    <<"c","h","r","o","m","e","-","e","x","t","e","n","s","i","o","n",":","/","/","e","/","a",".","j","s">>

\* The scheme prefix that makes a URL absolute
HTTP_PREFIX ==
    <<"h","t","t","p">>

StartsWith(s, p) ==
    /\ Len(p) <= Len(s)
    /\ SubSeq(s, 1, Len(p)) = p

EndsWith(s, p) ==
    /\ Len(p) <= Len(s)
    /\ SubSeq(s, Len(s) - Len(p) + 1, Len(s)) = p

\* URL resolution of cache.add / cache.addAll: a path is resolved against
\* the worker's origin, an absolute URL is kept.
Resolve(u) ==
    IF StartsWith(u, HTTP_PREFIX) THEN u ELSE ORIGIN \o u

STATIC_CACHE == "pocketgnu-static-v1.0.0"
DYNAMIC_CACHE == "pocketgnu-dynamic-v1.0.0"

CRITICAL_RESOURCES ==
    << P_ROOT, P_INDEX, P_CRITICAL_CSS, P_ERRORHANDLER_JS, P_UTILS_JS, P_SCRIPTS_JS >>

STATIC_RESOURCES ==
    << P_STYLES_CSS, FONTS_API \o P_FONT_CSS2 >>

CACHE_FIRST == "cache-first"
NETWORK_FIRST == "network-first"
STALE_WHILE_REVALIDATE == "stale-while-revalidate"
NETWORK_ONLY == "network-only"
CACHE_ONLY == "cache-only"

CACHE_STRATEGIES ==
    { CACHE_FIRST, NETWORK_FIRST, STALE_WHILE_REVALIDATE, NETWORK_ONLY, CACHE_ONLY }

\* CACHE_PATTERNS with the two host patterns listed before the two
\* extension patterns
CACHE_PATTERNS_HostsFirst ==
    << [pattern |-> [anchor |-> "start", alts |-> {FONTS_API}],
        strategy |-> STALE_WHILE_REVALIDATE],
       [pattern |-> [anchor |-> "start", alts |-> {FONTS_STATIC}],
        strategy |-> CACHE_FIRST],
       [pattern |-> [anchor |-> "end", alts |-> {EXT_JS, EXT_CSS}],
        strategy |-> STALE_WHILE_REVALIDATE],
       [pattern |-> [anchor |-> "end",
                     alts |-> {EXT_PNG, EXT_JPG, EXT_JPEG, EXT_SVG, EXT_GIF, EXT_WEBP}],
        strategy |-> CACHE_FIRST] >>

\* A pattern is an anchored alternation: /\.(?:a|b)$/ is anchored at the
\* end, /^prefix/ at the start.
CACHE_PATTERNS ==
    << [pattern |-> [anchor |-> "end", alts |-> {EXT_JS, EXT_CSS}],
        strategy |-> STALE_WHILE_REVALIDATE],
       [pattern |-> [anchor |-> "end",
                     alts |-> {EXT_PNG, EXT_JPG, EXT_JPEG, EXT_SVG, EXT_GIF, EXT_WEBP}],
        strategy |-> CACHE_FIRST],
       [pattern |-> [anchor |-> "start", alts |-> {FONTS_API}],
        strategy |-> STALE_WHILE_REVALIDATE],
       [pattern |-> [anchor |-> "start", alts |-> {FONTS_STATIC}],
        strategy |-> CACHE_FIRST] >>

\* RegExp.prototype.test for the patterns above (no g flag: stateless)
Test(pattern, url) ==
    \E a \in pattern.alts :
        IF pattern.anchor = "end" THEN EndsWith(url, a) ELSE StartsWith(url, a)

RECURSIVE PatternLoop(_, _)
\* the for..of loop of getCacheStrategy, from pattern i on
PatternLoop(i, url) ==
    IF i > Len(CACHE_PATTERNS)
    THEN NETWORK_FIRST
    ELSE IF Test(CACHE_PATTERNS[i].pattern, url)
         THEN CACHE_PATTERNS[i].strategy
         ELSE PatternLoop(i + 1, url)

RECURSIVE LastMatchLoop(_, _, _)
\* the loop without its return: a later match overrides an earlier one
LastMatchLoop(i, url, strategy) ==
    IF i > Len(CACHE_PATTERNS)
    THEN strategy
    ELSE LastMatchLoop(i + 1, url,
                       IF Test(CACHE_PATTERNS[i].pattern, url)
                       THEN CACHE_PATTERNS[i].strategy
                       ELSE strategy)

getCacheStrategy_LastMatch(url) ==
    LastMatchLoop(1, url, NETWORK_FIRST)

\* the loop with cache-only as the strategy of a URL no pattern matches
getCacheStrategy_DefaultCacheOnly(url) ==
    IF \A i \in DOMAIN CACHE_PATTERNS : ~Test(CACHE_PATTERNS[i].pattern, url)
    THEN CACHE_ONLY
    ELSE PatternLoop(1, url)

getCacheStrategy(url) ==
    PatternLoop(1, url)

\* The URLs the classification is applied to: one per combination of
\* patterns that it has to tell apart.
ClassifyURLs ==
    { ORIGIN \o P_UTILS_JS,          \* script
      ORIGIN \o P_CRITICAL_CSS,      \* stylesheet
      ORIGIN \o P_ROOT,              \* no pattern
      ORIGIN \o P_INDEX,             \* no pattern
      ORIGIN \o P_LOGO_PNG,          \* image
      ORIGIN \o P_PHOTO_JPEG,        \* image
      ORIGIN \o P_PIC_JPG,           \* image
      ORIGIN \o P_ANIM_GIF,          \* image
      ORIGIN \o P_MARK_SVG,          \* image
      FONTS_STATIC \o P_HERO_WEBP,   \* image on the font file host
      ORIGIN \o P_WOFF2,             \* font file on another host: no pattern
      FONTS_API \o P_FONT_CSS2,      \* font stylesheet host
      FONTS_STATIC \o P_WOFF2,       \* font file host
      FONTS_API \o P_ICON_PNG,       \* image on the font stylesheet host
      FONTS_STATIC \o P_ICON_PNG,    \* image on the font file host
      FONTS_API \o P_A_JS,           \* script on the font stylesheet host
      FONTS_STATIC \o P_A_JS,        \* script on the font file host
      ORIGIN \o P_A_JS \o P_FONT_CSS2 } \* script with a query string

\* The request URLs the page issues while the strategies are exercised:
\* one per strategy the classification assigns. The two critical resources
\* are in the static partition when the install cached them and in no
\* partition when it did not.
FetchURLs ==
    { ORIGIN \o P_UTILS_JS,          \* stale-while-revalidate, critical
      ORIGIN \o P_ROOT,              \* network-first, critical
      ORIGIN \o P_LOGO_PNG }         \* cache-first, not installed

(***************************************************************************)
(* Responses and cache storage                                             *)
(***************************************************************************)
VARIABLES
    lifecycle,   \* state of the worker: parsed, installing, installed, activating, activated
    install,     \* progress of the install listener's promises
    activate,    \* progress of the activate listener's promises
    caches,      \* CacheStorage: every partition created so far, in creation
                 \* order, as [name, entries, live]; caches.delete clears live
    metrics,     \* performanceMonitor.metrics
    reqs,        \* the fetch events dispatched so far, one record each
    puts,        \* the cache.put calls issued, applied or not
    msgs,        \* the message events dispatched so far, one record each
    cleanups,    \* the performCacheCleanup calls so far, one record each
    clock,       \* Date.now()
    errors,      \* ErrorHandler.errors of the page
    logged,      \* the number of logError calls of the page so far
    localStorage, \* localStorage of the origin: [items, full]
    retry,       \* the safeAsyncRetry call of the page
    terminal,    \* the closure of initTerminalAnimation and its timers
    ux           \* AdvancedUX and the elements of the settings dialog

\* The variables of the service worker
worker == << lifecycle, install, activate, caches, metrics, reqs, puts, msgs, cleanups, clock >>

\* The variables of the page
page == << errors, logged, localStorage, retry, terminal, ux >>

vars == << worker, page >>

\* The variables only the message and periodicsync listeners, the passing
\* of time and the page change
background == << msgs, cleanups, clock, page >>

\* The keys of localStorage the page scripts use
StorageKeys ==
    { "pocketgnu_errors", "pocketgnu_preferences" }

\* No page of the origin has run a script yet
RetryIdle ==
    [pc |-> "idle", attempts |-> 0, delay0 |-> 0, hasHandler |-> FALSE,
     attempt |-> 0, delay |-> 0, calls |-> 0, inflight |-> 0,
     waits |-> << >>, failed |-> 0, result |-> 0,
     thrown |-> [kind |-> "none", call |-> 0]]

TerminalIdle ==
    [pc |-> "idle", currentCommandIndex |-> 0, currentCharIndex |-> 0,
     isTyping |-> FALSE, textContent |-> << >>, timers |-> {},
     animationTimeouts |-> << >>, timeouts |-> 0]

UXIdle ==
    [pc |-> "idle", currentTheme |-> "default", userPreferences |-> << >>,
     dialog |-> FALSE, compactLayout |-> FALSE, showAnimations |-> FALSE,
     classList |-> {}]

PageIdle ==
    /\ errors = << >>
    /\ logged = 0
    /\ localStorage = [items |-> [k \in StorageKeys |-> << >>], full |-> FALSE]
    /\ retry = RetryIdle
    /\ terminal = TerminalIdle
    /\ ux = UXIdle

\* maxAge of performCacheCleanup, in milliseconds
maxAge ==
    7 * 24 * 60 * 60 * 1000

\* The date header of a response: absent, present with a text Date cannot
\* parse, or present with the time t in milliseconds
NoDate ==
    [present |-> FALSE, valid |-> FALSE, t |-> 0]

BadDate ==
    [present |-> TRUE, valid |-> FALSE, t |-> 0]

DateAt(t) ==
    [present |-> TRUE, valid |-> TRUE, t |-> t]

\* Response.ok: the status is in the range 200-299
Ok(response) ==
    response.status >= 200 /\ response.status <= 299

\* A response of the network for url; id tells one network response from
\* another (the body the server sent at that time): 0 for the responses
\* stored at install, r for the response to the fetch of request r.
NetworkResponse(url, status, id) ==
    [url |-> url, status |-> status, statusText |-> "", id |-> id,
     date |-> DateAt(clock)]

\* new Response('Network error', {status: 408, statusText: 'Request Timeout'})
TimeoutResponse ==
    [url |-> <<>>, status |-> 408, statusText |-> "Request Timeout", id |-> 0,
     date |-> NoDate]

\* The value of a variable that holds no response (yet)
NoResponse ==
    [url |-> <<>>, status |-> 0, statusText |-> "", id |-> 0, date |-> NoDate]

\* The statuses the network answers with in the model
NetStatuses ==
    {200, 404}

Max(a, b) ==
    IF a >= b THEN a ELSE b

\* The partitions CacheStorage holds: those created and not deleted since
Live(cs) ==
    { i \in 1..Len(cs) : cs[i].live }

CacheNames(cs) ==
    { cs[i].name : i \in Live(cs) }

\* The partition CacheStorage holds under name (0: none)
Named(cs, name) ==
    IF name \in CacheNames(cs)
    THEN CHOOSE i \in Live(cs) : cs[i].name = name
    ELSE 0

\* caches.open(name): the partition is created when it does not exist
Open(cs, name) ==
    IF name \in CacheNames(cs)
    THEN cs
    ELSE Append(cs, [name |-> name, entries |-> << >>, live |-> TRUE])

\* caches.delete(name): CacheStorage forgets the partition; a Cache object
\* obtained before keeps its entries
Delete(cs, name) ==
    [i \in 1..Len(cs) |->
        IF cs[i].live /\ cs[i].name = name
        THEN [cs[i] EXCEPT !.live = FALSE]
        ELSE cs[i]]

\* cache.put(url, response) on the Cache object of partition i: an entry of
\* the same request is replaced
PutAt(cs, i, url, response) ==
    [j \in 1..Len(cs) |->
        IF j = i
        THEN [cs[j] EXCEPT !.entries =
                 [u \in (DOMAIN cs[j].entries) \cup {url} |->
                     IF u = url THEN response ELSE cs[j].entries[u]]]
        ELSE cs[j]]

RECURSIVE MatchFrom(_, _, _)
\* caches.match(request): the partitions CacheStorage holds are searched in
\* creation order
MatchFrom(cs, i, url) ==
    IF i > Len(cs)
    THEN NoResponse
    ELSE IF cs[i].live /\ url \in DOMAIN cs[i].entries
         THEN cs[i].entries[url]
         ELSE MatchFrom(cs, i + 1, url)

Match(cs, url) ==
    MatchFrom(cs, 1, url)

(***************************************************************************)
(* PerformanceMonitor                                                      *)
(***************************************************************************)
recordCacheHit(m) ==
    [m EXCEPT !.cacheHits = @ + 1]

recordCacheMiss(m) ==
    [m EXCEPT !.cacheMisses = @ + 1]

recordNetworkRequest(m) ==
    [m EXCEPT !.networkRequests = @ + 1]

recordError(m) ==
    [m EXCEPT !.errors = @ + 1]

(***************************************************************************)
(* Initial state: the script has been evaluated, no event dispatched yet   *)
(***************************************************************************)
Init ==
    /\ lifecycle = "parsed"
    /\ install = [critical |-> "idle",
                  adds |-> [i \in 1..Len(STATIC_RESOURCES) |-> "idle"],
                  waitUntil |-> "idle",
                  skipWaiting |-> FALSE,
                  static |-> 0,
                  dynamic |-> 0]
    /\ activate = [deleting |-> {}, failed |-> FALSE, claimed |-> FALSE]
    /\ caches = << >>
    /\ metrics = [cacheHits |-> 0, cacheMisses |-> 0, networkRequests |-> 0, errors |-> 0]
    /\ reqs = << >>
    /\ puts = {}
    /\ msgs = << >>
    /\ cleanups = << >>
    /\ clock = 2 * maxAge
    /\ PageIdle

\* CACHE_NAME, declared by the script and used by no listener
CACHE_NAME ==
    "pocketgnu-v1.0.0"

\* The names STATIC_CACHE and DYNAMIC_CACHE had in the previous version of
\* the script
OLD_STATIC_CACHE ==
    "pocketgnu-static-v0.9.0"

OLD_DYNAMIC_CACHE ==
    "pocketgnu-dynamic-v0.9.0"

\* A partition an earlier worker left behind, with the responses it stored
\* for urls
Left(name, urls) ==
    [name |-> name,
     entries |-> [u \in urls |-> [url |-> u, status |-> 200, statusText |-> "",
                                  id |-> 0, date |-> DateAt(0)]],
     live |-> TRUE]

\* What CacheStorage may hold when the script is installed: partitions of
\* the previous version, a partition named CACHE_NAME, and partitions of
\* this version left by an earlier install (a static partition left empty
\* by a failed cache.addAll, a dynamic partition with an entry)
Leftovers ==
    << Left(OLD_STATIC_CACHE, { Resolve(P_UTILS_JS) }),
       Left(OLD_DYNAMIC_CACHE, { ORIGIN \o P_LOGO_PNG }),
       Left(CACHE_NAME, { Resolve(P_ROOT) }),
       Left(STATIC_CACHE, {}),
       Left(DYNAMIC_CACHE, { ORIGIN \o P_LOGO_PNG }) >>

\* The script is evaluated in a browser that has run earlier workers
InitUpgrade ==
    /\ lifecycle = "parsed"
    /\ install = [critical |-> "idle",
                  adds |-> [i \in 1..Len(STATIC_RESOURCES) |-> "idle"],
                  waitUntil |-> "idle",
                  skipWaiting |-> FALSE,
                  static |-> 0,
                  dynamic |-> 0]
    /\ activate = [deleting |-> {}, failed |-> FALSE, claimed |-> FALSE]
    /\ \E kept \in SUBSET (1..Len(Leftovers)) :
          caches = SelectSeq(Leftovers,
                      LAMBDA c : \E k \in kept : Leftovers[k].name = c.name)
    /\ metrics = [cacheHits |-> 0, cacheMisses |-> 0, networkRequests |-> 0, errors |-> 0]
    /\ reqs = << >>
    /\ puts = {}
    /\ msgs = << >>
    /\ cleanups = << >>
    /\ clock = 2 * maxAge
    /\ PageIdle

(***************************************************************************)
(* install                                                                 *)
(***************************************************************************)
\* The listener runs: both partitions are opened, cache.addAll and the
\* cache.add calls are issued; static and dynamic are the two Cache objects
\* the listener holds.
InstallEvent ==
    /\ lifecycle = "parsed"
    /\ lifecycle' = "installing"
    /\ caches' = Open(Open(caches, STATIC_CACHE), DYNAMIC_CACHE)
    /\ install' = [critical |-> "pending",
                   adds |-> [i \in 1..Len(STATIC_RESOURCES) |-> "pending"],
                   waitUntil |-> "pending",
                   skipWaiting |-> FALSE,
                   static |-> Named(caches', STATIC_CACHE),
                   dynamic |-> Named(caches', DYNAMIC_CACHE)]
    /\ UNCHANGED << activate, metrics, reqs, puts, background >>

\* Promise.all(...).then(skipWaiting): every member has settled successfully
InstallThen(ins) ==
    IF ins.critical = "ok" /\ \A i \in DOMAIN ins.adds : ins.adds[i] # "pending"
       /\ ins.waitUntil = "pending"
    THEN [ins EXCEPT !.waitUntil = "fulfilled", !.skipWaiting = TRUE]
    ELSE ins

\* What the browser does with the promise given to event.waitUntil
InstallOutcome(ins, lc) ==
    IF lc # "installing" THEN lc
    ELSE IF ins.waitUntil = "fulfilled" THEN "installed"
    ELSE IF ins.waitUntil = "rejected" THEN "redundant"
    ELSE lc

\* cache.addAll(CRITICAL_RESOURCES) settles: it stores every response, or,
\* when one of the requests in bad failed, nothing.
CriticalSettles(bad) ==
    /\ install.critical = "pending"
    /\ IF bad = {}
       THEN /\ caches' = [i \in 1..Len(caches) |->
                   IF i = install.static
                   THEN [caches[i] EXCEPT !.entries =
                           [u \in (DOMAIN caches[i].entries) \cup
                                  { Resolve(CRITICAL_RESOURCES[k]) :
                                      k \in 1..Len(CRITICAL_RESOURCES) } |->
                               IF \E k \in 1..Len(CRITICAL_RESOURCES) :
                                      u = Resolve(CRITICAL_RESOURCES[k])
                               THEN NetworkResponse(u, 200, 0)
                               ELSE caches[i].entries[u]]]
                   ELSE caches[i]]
            /\ install' = InstallThen([install EXCEPT !.critical = "ok"])
            /\ metrics' = metrics
       ELSE \* Promise.all rejects; .catch records the error and returns
            /\ caches' = caches
            /\ install' = [install EXCEPT !.critical = "failed",
                                          !.waitUntil = "fulfilled"]
            /\ metrics' = recordError(metrics)
    /\ lifecycle' = InstallOutcome(install', lifecycle)
    /\ UNCHANGED << activate, reqs, puts, background >>

\* the non-critical resource is stored in the static partition
StaticAddSettles_IntoStatic(i, ok) ==
    /\ install.adds[i] = "pending"
    /\ caches' = IF ok
                 THEN PutAt(caches, install.static, Resolve(STATIC_RESOURCES[i]),
                            NetworkResponse(Resolve(STATIC_RESOURCES[i]), 200, 0))
                 ELSE caches
    /\ install' = InstallThen([install EXCEPT !.adds[i] = IF ok THEN "ok" ELSE "failed"])
    /\ lifecycle' = InstallOutcome(install', lifecycle)
    /\ UNCHANGED << activate, metrics, reqs, puts, background >>

\* a failed cache.add rejects the install chain as a failed cache.addAll does
StaticAddSettles_FailsInstall(i, ok) ==
    /\ install.adds[i] = "pending"
    /\ caches' = IF ok
                 THEN PutAt(caches, install.dynamic, Resolve(STATIC_RESOURCES[i]),
                            NetworkResponse(Resolve(STATIC_RESOURCES[i]), 200, 0))
                 ELSE caches
    /\ IF ok
       THEN /\ install' = InstallThen([install EXCEPT !.adds[i] = "ok"])
            /\ metrics' = metrics
       ELSE /\ install' = [install EXCEPT !.adds[i] = "failed",
                              !.waitUntil = IF @ = "pending" THEN "fulfilled" ELSE @]
            /\ metrics' = recordError(metrics)
    /\ lifecycle' = InstallOutcome(install', lifecycle)
    /\ UNCHANGED << activate, reqs, puts, background >>

\* cache.add(STATIC_RESOURCES[i]) settles; a failure is caught and logged
StaticAddSettles(i, ok) ==
    /\ install.adds[i] = "pending"
    /\ caches' = IF ok
                 THEN PutAt(caches, install.dynamic, Resolve(STATIC_RESOURCES[i]),
                            NetworkResponse(Resolve(STATIC_RESOURCES[i]), 200, 0))
                 ELSE caches
    /\ install' = InstallThen([install EXCEPT !.adds[i] = IF ok THEN "ok" ELSE "failed"])
    /\ lifecycle' = InstallOutcome(install', lifecycle)
    /\ UNCHANGED << activate, metrics, reqs, puts, background >>

(***************************************************************************)
(* activate                                                                *)
(***************************************************************************)
\* The browser activates a worker whose install promise has fulfilled:
\* caches.keys() resolves and caches.delete is called for every name that
\* is neither STATIC_CACHE nor DYNAMIC_CACHE.
ActivateEvent ==
    /\ lifecycle = "installed"
    /\ lifecycle' = "activating"
    /\ activate' = [deleting |-> CacheNames(caches) \ {STATIC_CACHE, DYNAMIC_CACHE},
                    failed |-> FALSE, claimed |-> FALSE]
    /\ UNCHANGED << install, caches, metrics, reqs, puts, background >>

\* The outcomes of caches.delete(name): it resolves, or it rejects
DeleteResults ==
    {TRUE, FALSE}

\* One caches.delete(name) of the activate listener settles. The first
\* rejection rejects Promise.all: .catch records the error, clients.claim
\* is skipped and the promise given to event.waitUntil fulfils.
ActivateDeleteSettles(name, ok) ==
    /\ name \in activate.deleting
    /\ caches' = IF ok THEN Delete(caches, name) ELSE caches
    /\ IF ~ok /\ ~activate.failed
       THEN /\ activate' = [activate EXCEPT !.deleting = @ \ {name}, !.failed = TRUE]
            /\ metrics' = recordError(metrics)
            /\ lifecycle' = "activated"
       ELSE /\ activate' = [activate EXCEPT !.deleting = @ \ {name}]
            /\ UNCHANGED << metrics, lifecycle >>
    /\ UNCHANGED << install, reqs, puts, background >>

\* clients.claim() is called without waiting for the deletions
ActivateSettles_NoWait ==
    /\ lifecycle = "activating"
    /\ ~activate.failed
    /\ activate' = [activate EXCEPT !.claimed = TRUE]
    /\ lifecycle' = "activated"
    /\ UNCHANGED << install, caches, metrics, reqs, puts, background >>

\* Promise.all of the deletions has fulfilled: clients.claim() is called
\* and the worker is active.
ActivateSettles ==
    /\ lifecycle = "activating"
    /\ activate.deleting = {}
    /\ ~activate.failed
    /\ activate' = [activate EXCEPT !.claimed = TRUE]
    /\ lifecycle' = "activated"
    /\ UNCHANGED << install, caches, metrics, reqs, puts, background >>


(***************************************************************************)
(* fetch: the request records                                              *)
(*                                                                         *)
(* pc      where the strategy function of the request is suspended         *)
(* bg      the fetchPromise chain of staleWhileRevalidate                  *)
(* hres    the promise returned by handleRequest                           *)
(* resp    what respondWith (or the direct caller) received; NoResponse    *)
(*         with pc = "done" is the null of a failed revalidation           *)
(* error   the message of the error the handler rejected with              *)
(* cachedResponse, netResp                                                 *)
(*         the locals cachedResponse and networkResponse                   *)
(* fetches, matches, dHits, dMisses, dNet, dErrs                           *)
(*         history of the request: the fetch and caches.match calls it     *)
(*         issued and its share of each counter                            *)
(***************************************************************************)
NewRequest(url, strategy, via) ==
    [method |-> "GET", url |-> url, strategy |-> strategy, via |-> via,
     pc |-> "start", bg |-> "none", hres |-> "pending",
     resp |-> NoResponse, cachedResponse |-> NoResponse, netResp |-> NoResponse,
     error |-> "", fetches |-> 0, matches |-> 0,
     dHits |-> 0, dMisses |-> 0, dNet |-> 0, dErrs |-> 0]

\* The step of request r ends with record q, counters m and the new
\* cache.put calls P; the history fields follow from them.
Commit(r, q, m, P) ==
    /\ metrics' = m
    /\ puts' = puts \cup P
    /\ reqs' = [i \in 1..Max(r, Len(reqs)) |->
                  IF i = r
                  THEN [q EXCEPT !.dHits = @ + (m.cacheHits - metrics.cacheHits),
                                 !.dMisses = @ + (m.cacheMisses - metrics.cacheMisses),
                                 !.dNet = @ + (m.networkRequests - metrics.networkRequests),
                                 !.dErrs = @ + (m.errors - metrics.errors)]
                  ELSE reqs[i]]

\* The strategy function returns value: handleRequest fulfils with it and
\* respondWith receives it.
Returns(q, value) ==
    [q EXCEPT !.pc = "done", !.hres = "fulfilled", !.resp = value]

\* the catch without performanceMonitor.recordError
RespondWithCatch_NoRecord(q, m) ==
    << [q EXCEPT !.resp = TimeoutResponse], m >>

\* .catch of the fetch listener: the error is recorded and a 408 response
\* takes the place of the rejection.
RespondWithCatch(q, m) ==
    << [q EXCEPT !.resp = TimeoutResponse], recordError(m) >>

\* The strategy function throws: handleRequest rejects. Under respondWith
\* the listener's catch runs; a direct caller receives the rejection.
Throws(q, m, message) ==
    LET rejected == [q EXCEPT !.pc = "done", !.hres = "rejected", !.error = message]
    IN  IF q.via = "fetch" THEN RespondWithCatch(rejected, m) ELSE << rejected, m >>

\* cache.put(request, networkResponse.clone()) issued by request r
PutCall(r, q) ==
    [req |-> r, cache |-> DYNAMIC_CACHE,
     target |-> Named(Open(caches, DYNAMIC_CACHE), DYNAMIC_CACHE),
     url |-> q.url, response |-> q.netResp, applied |-> FALSE]

\* The synchronous start of the strategy function chosen by handleRequest
StrategyStart(q, m) ==
    CASE q.strategy = CACHE_FIRST ->
            << [q EXCEPT !.pc = "cf_match"], m >>
      [] q.strategy = STALE_WHILE_REVALIDATE ->
            << [q EXCEPT !.pc = "swr_match"], m >>
      [] q.strategy = CACHE_ONLY ->
            << [q EXCEPT !.pc = "co_match"], m >>
      [] q.strategy = NETWORK_ONLY ->
            << [q EXCEPT !.pc = "no_fetch", !.fetches = @ + 1], recordNetworkRequest(m) >>
      [] OTHER ->   \* NETWORK_FIRST and default
            << [q EXCEPT !.pc = "nf_fetch", !.fetches = @ + 1], recordNetworkRequest(m) >>

\* handleRequest for the request of record q
Dispatch(q) ==
    LET s == StrategyStart(q, metrics)
    IN  /\ Commit(Len(reqs) + 1, s[1], s[2], {})
        /\ UNCHANGED << background, activate, lifecycle, install, caches >>

handleRequest(url, strategy, via) ==
    Dispatch(NewRequest(url, strategy, via))

\* The fetch listener for a GET request of an http(s) URL
FetchEvent(url) ==
    /\ lifecycle = "activated"
    /\ Len(reqs) < MaxReq
    /\ handleRequest(url, getCacheStrategy(url), "fetch")

\* new URL(request.url).protocol: the scheme and its colon
Protocol(url) ==
    LET k == CHOOSE k \in 1..Len(url) :
                 url[k] = ":" /\ \A j \in 1..(k - 1) : url[j] # ":"
    IN  SubSeq(url, 1, k)

\* The listener returns before event.respondWith: the browser handles the
\* request itself. The record of the event stays as it was created.
Passthrough(method, url) ==
    /\ reqs' = Append(reqs, [NewRequest(url, "", "ignored") EXCEPT !.method = method])
    /\ UNCHANGED << lifecycle, install, activate, caches, metrics, puts, background >>

\* the method of the request is not looked at
FetchListener_AnyMethod(method, url) ==
    /\ lifecycle = "activated"
    /\ Len(reqs) < MaxReq
    /\ IF ~StartsWith(Protocol(url), HTTP_PREFIX)
       THEN Passthrough(method, url)
       ELSE Dispatch([NewRequest(url, getCacheStrategy(url), "fetch")
                         EXCEPT !.method = method])

\* The fetch listener for any request
FetchListener(method, url) ==
    /\ lifecycle = "activated"
    /\ Len(reqs) < MaxReq
    /\ IF method # "GET"
       THEN Passthrough(method, url)
       ELSE IF ~StartsWith(Protocol(url), HTTP_PREFIX)
            THEN Passthrough(method, url)
            ELSE Dispatch([NewRequest(url, getCacheStrategy(url), "fetch")
                              EXCEPT !.method = method])

\* The methods and URLs of the requests the pages send in the model
Methods ==
    {"GET", "POST"}

ListenerURLs ==
    { ORIGIN \o P_LOGO_PNG, EXTENSION_URL }

\* The outcomes of fetch(request): a rejection, << >>, or a response with
\* status s, << s >>
Rejected ==
    << >>

FetchResults ==
    {Rejected} \cup { << s >> : s \in NetStatuses }

\* A cache.put of a strategy lands in the Cache object it was called on; the
\* record of the call is kept, marked applied.
PutSettles(p) ==
    /\ p \in puts
    /\ ~p.applied
    /\ puts' = (puts \ {p}) \cup {[p EXCEPT !.applied = TRUE]}
    /\ caches' = PutAt(caches, p.target, p.url, p.response)
    /\ UNCHANGED << background, activate, lifecycle, install, metrics, reqs >>

(***************************************************************************)
(* cacheFirst                                                              *)
(***************************************************************************)
cacheFirst_Match(r) ==
    LET cachedResponse == Match(caches, reqs[r].url)
        q == [reqs[r] EXCEPT !.matches = @ + 1, !.cachedResponse = cachedResponse]
    IN  /\ reqs[r].pc = "cf_match"
        /\ IF cachedResponse # NoResponse
           THEN Commit(r, Returns(q, cachedResponse), recordCacheHit(metrics), {})
           ELSE Commit(r, [q EXCEPT !.pc = "cf_fetch", !.fetches = @ + 1],
                       recordNetworkRequest(recordCacheMiss(metrics)), {})
        /\ UNCHANGED << background, activate, lifecycle, install, caches >>

cacheFirst_Fetch(r, result) ==
    LET q == reqs[r]
        networkResponse == NetworkResponse(q.url, result[1], r)
    IN  /\ q.pc = "cf_fetch"
        /\ IF result = Rejected
           THEN LET t == Throws(q, metrics, "network")
                IN  Commit(r, t[1], t[2], {})
           ELSE IF Ok(networkResponse)
                THEN Commit(r, [q EXCEPT !.pc = "cf_open", !.netResp = networkResponse],
                            metrics, {})
                ELSE Commit(r, Returns([q EXCEPT !.netResp = networkResponse],
                                       networkResponse), metrics, {})
        /\ UNCHANGED << background, activate, lifecycle, install, caches >>

\* the response is returned and cache.put is forgotten
cacheFirst_Open_NoPut(r) ==
    LET q == reqs[r]
    IN  /\ q.pc = "cf_open"
        /\ caches' = Open(caches, DYNAMIC_CACHE)
        /\ Commit(r, Returns(q, q.netResp), metrics, {})
        /\ UNCHANGED << background, activate, lifecycle, install >>

cacheFirst_Open(r) ==
    LET q == reqs[r]
    IN  /\ q.pc = "cf_open"
        /\ caches' = Open(caches, DYNAMIC_CACHE)
        /\ Commit(r, Returns(q, q.netResp), metrics, {PutCall(r, q)})
        /\ UNCHANGED << background, activate, lifecycle, install >>

(***************************************************************************)
(* networkFirst                                                            *)
(***************************************************************************)
\* the response is stored whatever its status
networkFirst_Fetch_AnyStatus(r, result) ==
    LET q == reqs[r]
        networkResponse == NetworkResponse(q.url, result[1], r)
    IN  /\ q.pc = "nf_fetch"
        /\ IF result = Rejected
           THEN Commit(r, [q EXCEPT !.pc = "nf_match"], metrics, {})
           ELSE Commit(r, [q EXCEPT !.pc = "nf_open", !.netResp = networkResponse],
                       metrics, {})
        /\ UNCHANGED << background, activate, lifecycle, install, caches >>

networkFirst_Fetch(r, result) ==
    LET q == reqs[r]
        networkResponse == NetworkResponse(q.url, result[1], r)
    IN  /\ q.pc = "nf_fetch"
        /\ IF result = Rejected
           THEN Commit(r, [q EXCEPT !.pc = "nf_match"], metrics, {})
           ELSE IF Ok(networkResponse)
                THEN Commit(r, [q EXCEPT !.pc = "nf_open", !.netResp = networkResponse],
                            metrics, {})
                ELSE Commit(r, Returns([q EXCEPT !.netResp = networkResponse],
                                       networkResponse), metrics, {})
        /\ UNCHANGED << background, activate, lifecycle, install, caches >>

networkFirst_Open(r) ==
    LET q == reqs[r]
    IN  /\ q.pc = "nf_open"
        /\ caches' = Open(caches, DYNAMIC_CACHE)
        /\ Commit(r, Returns(q, q.netResp), metrics, {PutCall(r, q)})
        /\ UNCHANGED << background, activate, lifecycle, install >>

\* the catch block without the fallback: the error is thrown again
networkFirst_Match_NoFallback(r) ==
    LET cachedResponse == Match(caches, reqs[r].url)
        q == [reqs[r] EXCEPT !.matches = @ + 1, !.cachedResponse = cachedResponse]
        t == Throws(q, recordCacheMiss(metrics), "network")
    IN  /\ reqs[r].pc = "nf_match"
        /\ Commit(r, t[1], t[2], {})
        /\ UNCHANGED << background, activate, lifecycle, install, caches >>

\* the catch block: fall back to the cache
networkFirst_Match(r) ==
    LET cachedResponse == Match(caches, reqs[r].url)
        q == [reqs[r] EXCEPT !.matches = @ + 1, !.cachedResponse = cachedResponse]
    IN  /\ reqs[r].pc = "nf_match"
        /\ IF cachedResponse # NoResponse
           THEN Commit(r, Returns(q, cachedResponse), recordCacheHit(metrics), {})
           ELSE LET t == Throws(q, recordCacheMiss(metrics), "network")
                IN  Commit(r, t[1], t[2], {})
        /\ UNCHANGED << background, activate, lifecycle, install, caches >>


(***************************************************************************)
(* staleWhileRevalidate                                                    *)
(***************************************************************************)
\* caches.match settles; fetch(request) is issued whatever it found
staleWhileRevalidate_Match(r) ==
    LET cachedResponse == Match(caches, reqs[r].url)
        q == [reqs[r] EXCEPT !.matches = @ + 1, !.cachedResponse = cachedResponse,
                             !.bg = "fetching", !.fetches = @ + 1]
    IN  /\ reqs[r].pc = "swr_match"
        /\ IF cachedResponse # NoResponse
           THEN Commit(r, Returns(q, cachedResponse), recordCacheHit(metrics), {})
           ELSE Commit(r, [q EXCEPT !.pc = "swr_wait"],
                       recordNetworkRequest(recordCacheMiss(metrics)), {})
        /\ UNCHANGED << background, activate, lifecycle, install, caches >>

\* fetchPromise settles with value; a request that waits on it returns it
FetchPromiseSettles(q, bg, value) ==
    IF q.pc = "swr_wait"
    THEN Returns([q EXCEPT !.bg = bg], value)
    ELSE [q EXCEPT !.bg = bg]

\* the catch throws the error again
staleWhileRevalidate_Catch_Rethrow(q, m) ==
    Throws([q EXCEPT !.bg = "failed"], m, "network")

\* .catch of fetchPromise: the failure is logged and null is the value
staleWhileRevalidate_Catch(q, m) ==
    << FetchPromiseSettles(q, "failed", NoResponse), m >>

staleWhileRevalidate_Fetch(r, result) ==
    LET q == reqs[r]
        networkResponse == NetworkResponse(q.url, result[1], r)
    IN  /\ q.bg = "fetching"
        /\ IF result = Rejected
           THEN LET c == staleWhileRevalidate_Catch(q, metrics)
                IN  Commit(r, c[1], c[2], {})
           ELSE Commit(r, FetchPromiseSettles([q EXCEPT !.netResp = networkResponse],
                                                 IF Ok(networkResponse) THEN "open" ELSE "done",
                                                 networkResponse),
                          metrics, {})
        /\ UNCHANGED << background, activate, lifecycle, install, caches >>

\* the partition is opened and the put is forgotten
staleWhileRevalidate_Open_NoPut(r) ==
    LET q == reqs[r]
    IN  /\ q.bg = "open"
        /\ caches' = Open(caches, DYNAMIC_CACHE)
        /\ Commit(r, [q EXCEPT !.bg = "done"], metrics, {})
        /\ UNCHANGED << background, activate, lifecycle, install >>

\* caches.open(DYNAMIC_CACHE).then(c => c.put(...)) of the fetchPromise chain
staleWhileRevalidate_Open(r) ==
    LET q == reqs[r]
    IN  /\ q.bg = "open"
        /\ caches' = Open(caches, DYNAMIC_CACHE)
        /\ Commit(r, [q EXCEPT !.bg = "done"], metrics, {PutCall(r, q)})
        /\ UNCHANGED << background, activate, lifecycle, install >>

(***************************************************************************)
(* cacheOnly, networkOnly                                                  *)
(***************************************************************************)
\* a miss goes to the network instead of failing
cacheOnly_Match_ThenNetwork(r) ==
    LET cachedResponse == Match(caches, reqs[r].url)
        q == [reqs[r] EXCEPT !.matches = @ + 1, !.cachedResponse = cachedResponse]
    IN  /\ reqs[r].pc = "co_match"
        /\ IF cachedResponse # NoResponse
           THEN Commit(r, Returns(q, cachedResponse), recordCacheHit(metrics), {})
           ELSE Commit(r, [q EXCEPT !.pc = "no_fetch", !.fetches = @ + 1],
                       recordCacheMiss(metrics), {})
        /\ UNCHANGED << background, activate, lifecycle, install, caches >>

cacheOnly_Match(r) ==
    LET cachedResponse == Match(caches, reqs[r].url)
        q == [reqs[r] EXCEPT !.matches = @ + 1, !.cachedResponse = cachedResponse]
    IN  /\ reqs[r].pc = "co_match"
        /\ IF cachedResponse # NoResponse
           THEN Commit(r, Returns(q, cachedResponse), recordCacheHit(metrics), {})
           ELSE LET t == Throws(q, recordCacheMiss(metrics), "Resource not in cache")
                IN  Commit(r, t[1], t[2], {})
        /\ UNCHANGED << background, activate, lifecycle, install, caches >>

\* a successful response is also put into the dynamic partition
networkOnly_Fetch_Caches(r, result) ==
    LET q == reqs[r]
        networkResponse == NetworkResponse(q.url, result[1], r)
    IN  /\ q.pc = "no_fetch"
        /\ IF result = Rejected
           THEN LET t == Throws(q, metrics, "network")
                IN  Commit(r, t[1], t[2], {})
           ELSE Commit(r, Returns([q EXCEPT !.netResp = networkResponse],
                                     networkResponse), metrics,
                          IF Ok(networkResponse)
                          THEN {PutCall(r, [q EXCEPT !.netResp = networkResponse])}
                          ELSE {})
        /\ UNCHANGED << background, activate, lifecycle, install, caches >>

networkOnly_Fetch(r, result) ==
    LET q == reqs[r]
        networkResponse == NetworkResponse(q.url, result[1], r)
    IN  /\ q.pc = "no_fetch"
        /\ IF result = Rejected
           THEN LET t == Throws(q, metrics, "network")
                IN  Commit(r, t[1], t[2], {})
           ELSE Commit(r, Returns([q EXCEPT !.netResp = networkResponse],
                                     networkResponse), metrics, {})
        /\ UNCHANGED << background, activate, lifecycle, install, caches >>

\* The request URLs of the direct calls: one cached at install, one not
CallURLs ==
    { ORIGIN \o P_UTILS_JS, ORIGIN \o P_LOGO_PNG }

\* The strategies of the direct calls: the two that no pattern assigns, and
\* cache-first as the writer of the entries that cache-only reads
CallStrategies ==
    { CACHE_ONLY, NETWORK_ONLY, CACHE_FIRST }

\* handleRequest(request, strategy) called directly,
\* once the worker is active and the install's cache.add calls have settled
CallHandleRequest(url, strategy) ==
    /\ lifecycle = "activated"
    /\ \A i \in DOMAIN install.adds : install.adds[i] # "pending"
    /\ Len(reqs) < MaxReq
    /\ handleRequest(url, strategy, "call")

(***************************************************************************)
(* periodicsync: performCacheCleanup                                       *)
(*                                                                         *)
(* One record per periodicsync event:                                      *)
(* state    "ignored" (another tag), "open" (awaiting cache.keys()),       *)
(*          "scan" (the callbacks of requests.map are running),            *)
(*          "fulfilled", "rejected" (the promise of performCacheCleanup)   *)
(* cache    the Cache object caches.open(DYNAMIC_CACHE) resolved with      *)
(* now      Date.now() of the pass                                         *)
(* keys     the requests cache.keys() resolved with                        *)
(* pending  the requests whose callback awaits cache.match                 *)
(* deleting the requests whose cache.delete has not settled                *)
(***************************************************************************)
OneDay ==
    24 * 60 * 60 * 1000

\* Time passes
Tick ==
    /\ clock < 2 * maxAge + MaxDays * OneDay
    /\ clock' = clock + OneDay
    /\ UNCHANGED << lifecycle, install, activate, caches, metrics, reqs, puts, page,
                    msgs, cleanups >>

\* an entry as old as maxAge is deleted too
Expired_AtMaxAge(now, date) ==
    /\ date.present
    /\ date.valid
    /\ now - date.t >= maxAge

\* a date that cannot be parsed counts as the epoch
Expired_BadDateIsEpoch(now, date) ==
    /\ date.present
    /\ now - (IF date.valid THEN date.t ELSE 0) > maxAge

\* if (dateHeader) { ... if (now - responseDate > maxAge) ... }: getTime()
\* of a text Date cannot parse is NaN, and a comparison with NaN is false
Expired(now, date) ==
    /\ date.present
    /\ date.valid
    /\ now - date.t > maxAge

\* cache.delete(request) on the Cache object of partition i
DeleteEntry(cs, i, url) ==
    [j \in 1..Len(cs) |->
        IF j = i
        THEN [cs[j] EXCEPT !.entries =
                 [u \in (DOMAIN cs[j].entries) \ {url} |-> cs[j].entries[u]]]
        ELSE cs[j]]

SyncTags ==
    {"cache-cleanup", "content-sync"}

\* The periodicsync listener: for the tag 'cache-cleanup' it starts
\* performCacheCleanup, whose caches.open(DYNAMIC_CACHE) resolves.
PeriodicSyncEvent(tag) ==
    /\ lifecycle = "activated"
    /\ Len(cleanups) < MaxSync
    /\ IF tag = "cache-cleanup"
       THEN /\ caches' = Open(caches, DYNAMIC_CACHE)
            /\ cleanups' = Append(cleanups,
                  [tag |-> tag, state |-> "open",
                   cache |-> Named(caches', DYNAMIC_CACHE),
                   now |-> 0, keys |-> {}, pending |-> {}, deleting |-> {}])
       ELSE /\ caches' = caches
            /\ cleanups' = Append(cleanups,
                  [tag |-> tag, state |-> "ignored", cache |-> 0,
                   now |-> 0, keys |-> {}, pending |-> {}, deleting |-> {}])
    /\ UNCHANGED << lifecycle, install, activate, metrics, reqs, puts, page, msgs, clock >>

\* Promise.all(cleanupPromises) fulfils when every callback has returned
\* and every cache.delete has resolved
CleanupThen(c) ==
    IF c.state = "scan" /\ c.pending = {} /\ c.deleting = {}
    THEN [c EXCEPT !.state = "fulfilled"]
    ELSE c

\* cache.keys() resolves; now is read and every callback of requests.map
\* runs up to its await cache.match(request).
CleanupKeys(k) ==
    /\ cleanups[k].state = "open"
    /\ cleanups' = [cleanups EXCEPT ![k] =
          CleanupThen([cleanups[k] EXCEPT
                          !.state = "scan",
                          !.now = clock,
                          !.keys = DOMAIN caches[cleanups[k].cache].entries,
                          !.pending = DOMAIN caches[cleanups[k].cache].entries])]
    /\ UNCHANGED << lifecycle, install, activate, caches, metrics, reqs, puts, page,
                    msgs, clock >>

\* cache.match(request) of one callback resolves. Without an entry,
\* response is undefined and response.headers throws: the callback and with
\* it Promise.all and performCacheCleanup reject. With an expired entry
\* cache.delete(request) is called.
CleanupMatch(k, url) ==
    LET c == cleanups[k]
        found == url \in DOMAIN caches[c.cache].entries
    IN  /\ c.state \in {"scan", "rejected"}
        /\ url \in c.pending
        /\ cleanups' = [cleanups EXCEPT ![k] =
              IF ~found
              THEN [c EXCEPT !.pending = @ \ {url}, !.state = "rejected"]
              ELSE IF Expired(c.now, caches[c.cache].entries[url].date)
                   THEN [c EXCEPT !.pending = @ \ {url}, !.deleting = @ \cup {url}]
                   ELSE CleanupThen([c EXCEPT !.pending = @ \ {url}])]
        /\ UNCHANGED << lifecycle, install, activate, caches, metrics, reqs, puts, page,
                        msgs, clock >>

\* cache.delete(request) of one callback resolves
CleanupDeleteSettles(k, url) ==
    LET c == cleanups[k]
    IN  /\ url \in c.deleting
        /\ caches' = DeleteEntry(caches, c.cache, url)
        /\ cleanups' = [cleanups EXCEPT ![k] =
              CleanupThen([c EXCEPT !.deleting = @ \ {url}])]
        /\ UNCHANGED << lifecycle, install, activate, metrics, reqs, puts, page,
                        msgs, clock >>

Cleanup ==
    \/ \E k \in 1..Len(cleanups) : CleanupKeys(k)
    \/ \E k \in 1..Len(cleanups) : \E url \in cleanups[k].pending : CleanupMatch(k, url)
    \/ \E k \in 1..Len(cleanups) : \E url \in cleanups[k].deleting :
          CleanupDeleteSettles(k, url)

\* The dates of the responses the dynamic partition holds in the model:
\* none, unparseable, and 6 days, 7 days, 7 days and a millisecond, and
\* 8 days before the first pass
EntryDates ==
    { NoDate, BadDate,
      DateAt(2 * maxAge - 6 * OneDay),
      DateAt(2 * maxAge - maxAge),
      DateAt(2 * maxAge - maxAge - 1),
      DateAt(2 * maxAge - 8 * OneDay) }

\* A response the worker stored earlier, with the date header d
Stored(url, d) ==
    [url |-> url, status |-> 200, statusText |-> "", id |-> 0, date |-> d]

\* The worker is active; the static partition holds the critical resources
\* and the dynamic partition two responses stored while serving, the first
\* with any of the dates, the second undated or 8 days old.
InitCleanup ==
    /\ lifecycle = "activated"
    /\ install = [critical |-> "ok",
                  adds |-> [i \in 1..Len(STATIC_RESOURCES) |-> "failed"],
                  waitUntil |-> "fulfilled",
                  skipWaiting |-> TRUE,
                  static |-> 1,
                  dynamic |-> 2]
    /\ activate = [deleting |-> {}, failed |-> FALSE, claimed |-> TRUE]
    /\ \E d1 \in EntryDates, d2 \in { NoDate, BadDate, DateAt(2 * maxAge - 8 * OneDay) } :
          caches = << [name |-> STATIC_CACHE,
                       entries |-> [u \in { Resolve(CRITICAL_RESOURCES[k]) :
                                              k \in 1..Len(CRITICAL_RESOURCES) } |->
                                       Stored(u, DateAt(2 * maxAge - 8 * OneDay))],
                       live |-> TRUE],
                      [name |-> DYNAMIC_CACHE,
                       entries |-> [u \in { ORIGIN \o P_LOGO_PNG, ORIGIN \o P_ICON_PNG } |->
                                       Stored(u, IF u = ORIGIN \o P_LOGO_PNG
                                                 THEN d1 ELSE d2)],
                       live |-> TRUE] >>
    /\ metrics = [cacheHits |-> 0, cacheMisses |-> 0, networkRequests |-> 0, errors |-> 0]
    /\ reqs = << >>
    /\ puts = {}
    /\ msgs = << >>
    /\ cleanups = << >>
    /\ clock = 2 * maxAge
    /\ PageIdle

NextCleanup ==
    \/ \E tag \in SyncTags : PeriodicSyncEvent(tag)
    \/ Cleanup
    \/ Tick

SpecCleanup ==
    InitCleanup /\ [][NextCleanup]_vars

(***************************************************************************)
(* message                                                                 *)
(*                                                                         *)
(* One record per message event; every message carries a port.             *)
(* type, hasUrls, urls                                                     *)
(*          event.data: the type, whether payload.urls is there, its value *)
(* state    "ignored" (no case of the switch acts), "keys" (clearAllCaches *)
(*          awaits caches.keys()), "deleting", "adding" (prefetchResources *)
(*          awaits Promise.allSettled), "fulfilled", "rejected"            *)
(* existing the partitions CacheStorage held when the message arrived      *)
(* keys     the names caches.keys() resolved with                          *)
(* deleting the names whose caches.delete has not settled                  *)
(* cache    the Cache object caches.open(DYNAMIC_CACHE) resolved with      *)
(* pending  the indices of urls whose cache.add has not settled            *)
(* results  the settled results of Promise.allSettled, by index            *)
(* replies  what was posted to event.ports[0], in order                    *)
(***************************************************************************)
\* an alias of this.metrics is returned instead of a copy
getMetrics_Alias(m) ==
    [alias |-> TRUE, value |-> [cacheHits |-> 0, cacheMisses |-> 0,
                                networkRequests |-> 0, errors |-> 0]]

\* getMetrics() { return { ...this.metrics }; }: a new object with the
\* values the counters have now
getMetrics(m) ==
    [alias |-> FALSE, value |-> m]

\* What the receiver of a metrics object reads in it when the counters of
\* the worker are m
Read(object, m) ==
    IF object.alias THEN m ELSE object.value

\* null, and an error message
null ==
    << >>

Message(text) ==
    << text >>

NewMessage(type, hasUrls, urls) ==
    [type |-> type, hasUrls |-> hasUrls, urls |-> urls,
     state |-> "ignored", existing |-> {}, keys |-> {}, deleting |-> {},
     cache |-> 0, pending |-> {}, results |-> << >>, replies |-> << >>]

\* results.map((result, index) => ({url, success, error})) over the
\* settled results, in the order of urls
PrefetchResults(g) ==
    [i \in 1..Len(g.urls) |->
        [url |-> g.urls[i],
         success |-> g.results[i].status = "fulfilled",
         error |-> IF g.results[i].status = "rejected"
                   THEN Message(g.results[i].reason)
                   ELSE null]]

\* a rejected cache.add rejects prefetchResources, as under Promise.all
PrefetchThen_AllOrNothing(g) ==
    IF g.state = "adding" /\ g.pending = {}
    THEN IF \A i \in DOMAIN g.results : g.results[i].status = "fulfilled"
         THEN [g EXCEPT !.state = "fulfilled",
                        !.replies = Append(@, [type |-> "PREFETCH_COMPLETE",
                                               payload |-> [results |-> PrefetchResults(g)]])]
         ELSE [g EXCEPT !.state = "rejected"]
    ELSE g

\* Promise.allSettled has settled: prefetchResources returns the results
\* and .then posts them
PrefetchThen(g) ==
    IF g.state = "adding" /\ g.pending = {}
    THEN [g EXCEPT !.state = "fulfilled",
                   !.replies = Append(@, [type |-> "PREFETCH_COMPLETE",
                                          payload |-> [results |-> PrefetchResults(g)]])]
    ELSE g

\* the reply is posted as soon as one deletion has resolved
ClearThen_First(g) ==
    IF g.state = "deleting"
    THEN [g EXCEPT !.state = "fulfilled",
                   !.replies = Append(@, [type |-> "CACHE_CLEARED",
                                          payload |-> [success |-> TRUE, error |-> null]])]
    ELSE g

\* Promise.all of the deletions has fulfilled: .then posts the success
ClearThen(g) ==
    IF g.state = "deleting" /\ g.deleting = {}
    THEN [g EXCEPT !.state = "fulfilled",
                   !.replies = Append(@, [type |-> "CACHE_CLEARED",
                                          payload |-> [success |-> TRUE, error |-> null]])]
    ELSE g

\* Promise.all of the deletions rejects with the first rejection: .catch
\* posts the failure
ClearCatch(g, text) ==
    IF g.state = "deleting"
    THEN [g EXCEPT !.state = "rejected",
                   !.replies = Append(@, [type |-> "CACHE_CLEARED",
                                          payload |-> [success |-> FALSE,
                                                       error |-> Message(text)]])]
    ELSE g

\* The message listener up to the first await of the function it calls
MessageEvent(type, hasUrls, urls) ==
    LET g == NewMessage(type, hasUrls, urls)
    IN  /\ lifecycle = "activated"
        /\ Len(msgs) < MaxMsg
        /\ CASE type = "GET_METRICS" ->
                  /\ msgs' = Append(msgs,
                        [g EXCEPT !.state = "fulfilled",
                                  !.replies = << [type |-> "METRICS_RESPONSE",
                                                  payload |-> getMetrics(metrics)] >>])
                  /\ caches' = caches
             [] type = "CLEAR_CACHE" ->
                  /\ msgs' = Append(msgs,
                        [g EXCEPT !.state = "keys", !.existing = Live(caches)])
                  /\ caches' = caches
             [] type = "PREFETCH_RESOURCES" /\ hasUrls ->
                  \* caches.open(DYNAMIC_CACHE) resolves and cache.add is
                  \* called for every url
                  /\ caches' = Open(caches, DYNAMIC_CACHE)
                  /\ msgs' = Append(msgs,
                        PrefetchThen([g EXCEPT !.state = "adding",
                                               !.cache = Named(caches', DYNAMIC_CACHE),
                                               !.pending = 1..Len(urls)]))
             [] OTHER ->
                  /\ msgs' = Append(msgs, g)
                  /\ caches' = caches
        /\ UNCHANGED << lifecycle, install, activate, metrics, reqs, puts, page,
                        cleanups, clock >>

\* clearAllCaches: caches.keys() resolves and caches.delete is called for
\* every name
ClearKeys(k) ==
    /\ msgs[k].state = "keys"
    /\ msgs' = [msgs EXCEPT ![k] =
          ClearThen([msgs[k] EXCEPT !.state = "deleting",
                                    !.keys = CacheNames(caches),
                                    !.deleting = CacheNames(caches)])]
    /\ UNCHANGED << lifecycle, install, activate, caches, metrics, reqs, puts, page,
                    cleanups, clock >>

\* One caches.delete(name) of clearAllCaches settles
ClearDeleteSettles(k, name, ok) ==
    LET g == [msgs[k] EXCEPT !.deleting = @ \ {name}]
    IN  /\ name \in msgs[k].deleting
        /\ caches' = IF ok THEN Delete(caches, name) ELSE caches
        /\ msgs' = [msgs EXCEPT ![k] =
              IF ok THEN ClearThen(g) ELSE ClearCatch(g, "delete failed")]
        /\ UNCHANGED << lifecycle, install, activate, metrics, reqs, puts, page,
                        cleanups, clock >>

\* cache.add(urls[i]) of prefetchResources settles: the response of a 2xx
\* answer is stored under the resolved URL; a network failure or another
\* status rejects with a TypeError
PrefetchAddSettles(k, i, result) ==
    LET g == msgs[k]
        url == Resolve(g.urls[i])
        outcome == IF result = Rejected
                   THEN [status |-> "rejected", reason |-> "Failed to fetch"]
                   ELSE IF Ok(NetworkResponse(url, result[1], 0))
                        THEN [status |-> "fulfilled", reason |-> ""]
                        ELSE [status |-> "rejected", reason |-> "Request failed"]
    IN  /\ i \in g.pending
        /\ caches' = IF outcome.status = "fulfilled"
                     THEN PutAt(caches, g.cache, url, NetworkResponse(url, result[1], 0))
                     ELSE caches
        /\ msgs' = [msgs EXCEPT ![k] =
              PrefetchThen([g EXCEPT !.pending = @ \ {i},
                                     !.results = [j \in (DOMAIN @) \cup {i} |->
                                                     IF j = i THEN outcome ELSE @[j]]])]
        /\ UNCHANGED << lifecycle, install, activate, metrics, reqs, puts, page,
                        cleanups, clock >>

\* The lists of URLs the pages ask to prefetch in the model
PrefetchLists ==
    { << >>, << P_ICON_PNG >>, << P_LOGO_PNG, P_ICON_PNG >> }

\* event.data of the messages the pages send in the model
MessageInputs ==
    { [type |-> "GET_METRICS", hasUrls |-> FALSE, urls |-> << >>],
      [type |-> "CLEAR_CACHE", hasUrls |-> FALSE, urls |-> << >>],
      [type |-> "PREFETCH_RESOURCES", hasUrls |-> FALSE, urls |-> << >>],
      [type |-> "PING", hasUrls |-> FALSE, urls |-> << >>] }
    \cup { [type |-> "PREFETCH_RESOURCES", hasUrls |-> TRUE, urls |-> l] :
              l \in PrefetchLists }

Messages ==
    \/ \E d \in MessageInputs : MessageEvent(d.type, d.hasUrls, d.urls)
    \/ \E k \in 1..Len(msgs) : ClearKeys(k)
    \/ \E k \in 1..Len(msgs) : \E name \in msgs[k].deleting, ok \in DeleteResults :
          ClearDeleteSettles(k, name, ok)
    \/ \E k \in 1..Len(msgs) : \E i \in msgs[k].pending, result \in FetchResults :
          PrefetchAddSettles(k, i, result)

\* The worker is active; the static partition holds the critical resources
\* and the dynamic partition one response stored while serving.
InitActive ==
    /\ lifecycle = "activated"
    /\ install = [critical |-> "ok",
                  adds |-> [i \in 1..Len(STATIC_RESOURCES) |-> "failed"],
                  waitUntil |-> "fulfilled",
                  skipWaiting |-> TRUE,
                  static |-> 1,
                  dynamic |-> 2]
    /\ activate = [deleting |-> {}, failed |-> FALSE, claimed |-> TRUE]
    /\ caches = << [name |-> STATIC_CACHE,
                    entries |-> [u \in { Resolve(CRITICAL_RESOURCES[k]) :
                                           k \in 1..Len(CRITICAL_RESOURCES) } |->
                                    Stored(u, DateAt(2 * maxAge))],
                    live |-> TRUE],
                   [name |-> DYNAMIC_CACHE,
                    entries |-> [u \in { ORIGIN \o P_LOGO_PNG } |->
                                    Stored(u, DateAt(2 * maxAge))],
                    live |-> TRUE] >>
    /\ metrics = [cacheHits |-> 0, cacheMisses |-> 0, networkRequests |-> 0, errors |-> 0]
    /\ reqs = << >>
    /\ puts = {}
    /\ msgs = << >>
    /\ cleanups = << >>
    /\ clock = 2 * maxAge
    /\ PageIdle

SpecMessages ==
    InitActive /\ [][Messages]_vars

(***************************************************************************)
(* ErrorHandler of the page                                                *)
(***************************************************************************)
\* The number of errors a page session logs
MaxLogged == 52

\* The worker's script has been evaluated, no event dispatched yet
WorkerEvaluated ==
    /\ lifecycle = "parsed"
    /\ install = [critical |-> "idle",
                  adds |-> [i \in 1..Len(STATIC_RESOURCES) |-> "idle"],
                  waitUntil |-> "idle",
                  skipWaiting |-> FALSE,
                  static |-> 0,
                  dynamic |-> 0]
    /\ activate = [deleting |-> {}, failed |-> FALSE, claimed |-> FALSE]
    /\ caches = << >>
    /\ metrics = [cacheHits |-> 0, cacheMisses |-> 0, networkRequests |-> 0, errors |-> 0]
    /\ reqs = << >>
    /\ puts = {}
    /\ msgs = << >>
    /\ cleanups = << >>
    /\ clock = 2 * maxAge

\* this.maxErrors
maxErrors == 50

\* the number of errors saveToLocalStorage keeps
maxStored == 20

\* The n-th error logged; timestamp orders the errors
errorInfo(n) ==
    [timestamp |-> n]

\* JSON.stringify of an array of errors: the text, token by token
JSON_stringify(list) ==
    << "[" >>
    \o [i \in 1..(IF list = << >> THEN 0 ELSE 2 * Len(list) - 1) |->
           IF i % 2 = 1 THEN ToString(list[(i + 1) \div 2].timestamp) ELSE ","]
    \o << "]" >>

\* the number a token spells
Number(token) ==
    CHOOSE n \in 0..(MaxLogged + 1) : ToString(n) = token

\* JSON.parse of the text of an array of errors
JSON_parse(text) ==
    LET inner == SubSeq(text, 2, Len(text) - 1)
    IN  [i \in 1..((Len(inner) + 1) \div 2) |->
            [timestamp |-> Number(inner[2 * i - 1])]]

\* localStorage.getItem(key): << >> for null, << text >> for an item
getItem(ls, key) ==
    ls.items[key]

\* localStorage.removeItem(key)
removeItem(ls, key) ==
    [ls EXCEPT !.items[key] = << >>]

\* the list is stored as it grows
saveToLocalStorage_NoTrim(ls, info) ==
    LET item == getItem(ls, "pocketgnu_errors")
        existingErrors == JSON_parse(IF item = << >> THEN << "[", "]" >> ELSE item[1])
    IN  IF ls.full
        THEN ls
        ELSE [ls EXCEPT !.items["pocketgnu_errors"] =
                 << JSON_stringify(Append(existingErrors, info)) >>]

\* saveToLocalStorage(errorInfo): the stored list is parsed, extended, cut
\* to its last maxStored errors and stored; setItem throws when the storage
\* is full and the catch leaves the item as it was
saveToLocalStorage(ls, info) ==
    LET item == getItem(ls, "pocketgnu_errors")
        existingErrors == JSON_parse(IF item = << >> THEN << "[", "]" >> ELSE item[1])
        pushed == Append(existingErrors, info)
        kept == IF Len(pushed) > maxStored
                THEN SubSeq(pushed, Len(pushed) - maxStored + 1, Len(pushed))
                ELSE pushed
    IN  IF ls.full
        THEN ls
        ELSE [ls EXCEPT !.items["pocketgnu_errors"] = << JSON_stringify(kept) >>]

\* this.errors.push(errorInfo) and the shift of the oldest error
Pushed(list, info) ==
    LET pushed == Append(list, info)
    IN  IF Len(pushed) > maxErrors THEN Tail(pushed) ELSE pushed

\* logError(errorInfo)
logError ==
    /\ logged < MaxLogged
    /\ logged' = logged + 1
    /\ errors' = Pushed(errors, errorInfo(logged + 1))
    /\ localStorage' = saveToLocalStorage(localStorage, errorInfo(logged + 1))
    /\ UNCHANGED << worker, retry, terminal, ux >>

\* clearErrors()
clearErrors ==
    /\ errors' = << >>
    /\ localStorage' = removeItem(localStorage, "pocketgnu_errors")
    /\ UNCHANGED << worker, logged, retry, terminal, ux >>

\* The page is loaded again: new ErrorHandler()
ErrorHandler ==
    /\ errors' = << >>
    /\ UNCHANGED << worker, logged, localStorage, retry, terminal, ux >>

\* A page whose scripts have run, with a localStorage that takes items or
\* one that is full
InitErrors ==
    /\ WorkerEvaluated
    /\ errors = << >>
    /\ logged = 0
    /\ localStorage \in { [items |-> [k \in StorageKeys |-> << >>], full |-> f] :
                            f \in BOOLEAN }
    /\ retry = RetryIdle
    /\ terminal = TerminalIdle
    /\ ux = UXIdle

NextErrors ==
    \/ logError
    \/ clearErrors
    \/ ErrorHandler

SpecErrors ==
    InitErrors /\ [][NextErrors]_vars

(***************************************************************************)
(* safeAsyncRetry of the page utilities                                    *)
(***************************************************************************)
\* The largest number of attempts asked for
MaxAttempts == 3

\* The delays asked for, in milliseconds
Delays ==
    { 0, 250, 1000 }

\* this.errorHandler?.logRetryAttempt / logCustomError: logError when the
\* utilities have an error handler
LogIf(has) ==
    IF has
    THEN /\ logged' = logged + 1
         /\ errors' = Pushed(errors, errorInfo(logged + 1))
         /\ localStorage' = saveToLocalStorage(localStorage, errorInfo(logged + 1))
    ELSE UNCHANGED << errors, logged, localStorage >>

\* The loop test of safeAsyncRetry with the loop variable at attempt:
\* asyncFunc is called, or the loop is left, the failure of all attempts is
\* logged and lastError is thrown; lastError.message of an undefined
\* lastError is a TypeError
Iterate(q, attempt) ==
    IF attempt <= q.attempts
    THEN /\ retry' = [q EXCEPT !.pc = "calling", !.attempt = attempt,
                               !.calls = @ + 1, !.inflight = @ + 1]
         /\ UNCHANGED << errors, logged, localStorage >>
    ELSE IF q.failed = 0
         THEN /\ retry' = [q EXCEPT !.pc = "rejected", !.attempt = attempt,
                                    !.thrown = [kind |-> "TypeError", call |-> 0]]
              /\ UNCHANGED << errors, logged, localStorage >>
         ELSE /\ retry' = [q EXCEPT !.pc = "rejected", !.attempt = attempt,
                                    !.thrown = [kind |-> "lastError", call |-> q.failed]]
              /\ LogIf(q.hasHandler)

\* safeAsyncRetry(asyncFunc, attempts, delay, context) is called
safeAsyncRetry(attempts, delay, has) ==
    /\ retry.pc = "idle"
    /\ Iterate([retry EXCEPT !.attempts = attempts, !.delay0 = delay,
                             !.delay = delay, !.hasHandler = has], 1)
    /\ UNCHANGED << worker, terminal, ux >>

\* the promise of asyncFunc() settles: its value is returned, or the error
\* is kept as lastError and logged and the timer of the backoff is set
AsyncFuncSettles(ok) ==
    /\ retry.pc = "calling"
    /\ IF ok
       THEN /\ retry' = [retry EXCEPT !.pc = "resolved", !.inflight = @ - 1,
                                      !.result = retry.calls]
            /\ UNCHANGED << errors, logged, localStorage >>
       ELSE /\ retry' = [retry EXCEPT !.pc = "waiting", !.inflight = @ - 1,
                                      !.failed = retry.calls,
                                      !.waits = Append(@, retry.delay)]
            /\ LogIf(retry.hasHandler)
    /\ UNCHANGED << worker, terminal, ux >>

\* the timer of the backoff fires: delay is doubled and the loop goes on
BackoffElapsed ==
    /\ retry.pc = "waiting"
    /\ Iterate([retry EXCEPT !.delay = @ * 2], retry.attempt + 1)
    /\ UNCHANGED << worker, terminal, ux >>

NextRetry ==
    \/ \E attempts \in 0..MaxAttempts, delay \in Delays, has \in BOOLEAN :
          safeAsyncRetry(attempts, delay, has)
    \/ \E ok \in BOOLEAN : AsyncFuncSettles(ok)
    \/ BackoffElapsed

SpecRetry ==
    InitErrors /\ [][NextRetry]_vars

(***************************************************************************)
(* Terminal animation of the page                                          *)
(***************************************************************************)
\* const commands of initTerminalAnimation, character by character
commands ==
    << <<"l","s"," ","-","l","a">>,
       <<"c","d"," ","p","r","o","j","e","c","t","s">>,
       <<"g","i","t"," ","c","l","o","n","e"," ","h","t","t","p","s",":","/","/","g","i","t","h","u","b",".","c","o","m","/","u","s","e","r","/","a","p","p",".","g","i","t">>,
       <<"n","p","m"," ","i","n","s","t","a","l","l">>,
       <<"n","p","m"," ","r","u","n"," ","d","e","v">>,
       <<"e","c","h","o"," ","\"","P","o","c","k","e","t","G","N","U"," ","i","s"," ","a","w","e","s","o","m","e","!","\"">> >>

\* utils.safeSetTimeout(callback, delay): the timer is set and its id is
\* pushed to animationTimeouts
SetTimeout(t, kind, delay) ==
    [t EXCEPT !.timeouts = @ + 1,
              !.timers = @ \cup {[id |-> t.timeouts + 1, kind |-> kind, delay |-> delay]},
              !.animationTimeouts = Append(@, t.timeouts + 1)]

\* typeCommand(): nothing when isTyping is set; else isTyping is set and
\* the next character is shown with a timer of 100 ms for the next call, or,
\* at the end of the command, the timer of 2 s for the next command is set
typeCommand(t) ==
    IF t.isTyping
    THEN t
    ELSE LET currentCommand == commands[t.currentCommandIndex + 1]
             typing == [t EXCEPT !.isTyping = TRUE]
         IN  IF t.currentCharIndex < Len(currentCommand)
             THEN SetTimeout([typing EXCEPT
                                 !.textContent = SubSeq(currentCommand, 1,
                                                        t.currentCharIndex + 1),
                                 !.currentCharIndex = @ + 1],
                             "type", 100)
             ELSE SetTimeout(typing, "next", 2000)

\* initTerminalAnimation(): without the element #terminal-command an error
\* is logged; with it the animation is started
initTerminalAnimation(found) ==
    /\ terminal.pc = "idle"
    /\ IF found
       THEN /\ terminal' = typeCommand([terminal EXCEPT !.pc = "started"])
            /\ UNCHANGED << errors, logged, localStorage >>
       ELSE /\ terminal' = [terminal EXCEPT !.pc = "absent"]
            /\ LogIf(TRUE)
    /\ UNCHANGED << worker, retry, ux >>

\* A timer of the animation fires and its callback runs
TimerFires(timer) ==
    /\ timer \in terminal.timers
    /\ LET fired == [terminal EXCEPT !.timers = @ \ {timer}]
       IN  terminal' =
             IF timer.kind = "type"
             THEN typeCommand(fired)
             ELSE typeCommand([fired EXCEPT
                     !.currentCharIndex = 0,
                     !.currentCommandIndex = (@ + 1) % Len(commands),
                     !.isTyping = FALSE])
    /\ UNCHANGED << worker, errors, logged, localStorage, retry, ux >>

\* window.cleanupTerminalAnimation()
cleanupTerminalAnimation ==
    /\ terminal.pc = "started"
    /\ terminal' = [terminal EXCEPT !.timers = {}, !.animationTimeouts = << >>,
                                    !.isTyping = FALSE, !.pc = "cleaned"]
    /\ UNCHANGED << worker, errors, logged, localStorage, retry, ux >>

\* The scripts of the page: the demo call of safeAsyncRetry and the
\* terminal animation
NextPage ==
    \/ NextRetry
    \/ \E found \in BOOLEAN : initTerminalAnimation(found)
    \/ \E timer \in terminal.timers : TimerFires(timer)
    \/ cleanupTerminalAnimation

\* with the timers of the browser: a timer that is set fires
SpecPage ==
    /\ InitErrors /\ [][NextPage]_vars
    /\ WF_vars(\E timer \in terminal.timers : TimerFires(timer))

(***************************************************************************)
(* Preferences of AdvancedUX                                               *)
(***************************************************************************)
\* The themes of the settings dialog
Themes ==
    { "default", "dark", "light" }

\* JSON text of true and false
Boolean(b) ==
    IF b THEN "true" ELSE "false"

\* JSON.stringify(preferences), token by token
StringifyPreferences(preferences) ==
    << "{", "theme", preferences.theme,
       "compactLayout", Boolean(preferences.compactLayout),
       "showAnimations", Boolean(preferences.showAnimations), "}" >>

\* JSON.parse of the text of a preferences object
ParsePreferences(text) ==
    [theme |-> text[3], compactLayout |-> (text[5] = "true"),
     showAnimations |-> (text[7] = "true")]

\* utils.safeLocalStorageGet('pocketgnu_preferences', {}): << >> for {}
safeLocalStorageGet(ls) ==
    LET item == getItem(ls, "pocketgnu_preferences")
    IN  IF item = << >> THEN << >> ELSE << ParsePreferences(item[1]) >>

\* element?.checked || value
CheckedOr(present, checked, value) ==
    IF present /\ checked THEN TRUE ELSE value

\* const preferences of saveUserPreferences
Preferences(x) ==
    [theme |-> x.currentTheme,
     compactLayout |-> CheckedOr(x.dialog, x.compactLayout, FALSE),
     showAnimations |-> CheckedOr(x.dialog, x.showAnimations, TRUE)]

\* AdvancedUX is constructed and init() runs on a new document:
\* initPersonalization creates the dialog with both boxes unchecked
AdvancedUX(dialog) ==
    /\ ux.pc = "idle"
    /\ ux' = [UXIdle EXCEPT !.pc = "constructed", !.dialog = dialog]
    /\ UNCHANGED << worker, errors, logged, localStorage, retry, terminal >>

\* loadUserPreferences()
loadUserPreferences ==
    /\ ux.pc \in {"constructed", "ready"}
    /\ LET preferences == safeLocalStorageGet(localStorage)
       IN  ux' = [ux EXCEPT
                    !.pc = "ready",
                    !.userPreferences = preferences,
                    !.currentTheme = IF preferences # << >> THEN preferences[1].theme ELSE @,
                    !.classList =
                        @ \cup (IF preferences # << >> /\ preferences[1].compactLayout
                                THEN {"compact-layout"} ELSE {})
                          \cup (IF preferences # << >> /\ ~preferences[1].showAnimations
                                THEN {"no-animations"} ELSE {})]
    /\ UNCHANGED << worker, errors, logged, localStorage, retry, terminal >>

\* The user picks a theme in the dialog: handleThemeSelection(theme)
handleThemeSelection(theme) ==
    /\ ux.pc = "ready" /\ ux.dialog
    /\ ux' = [ux EXCEPT !.currentTheme = theme]
    /\ UNCHANGED << worker, errors, logged, localStorage, retry, terminal >>

\* The user clicks a checkbox of the dialog
Click(box) ==
    /\ ux.pc = "ready" /\ ux.dialog
    /\ ux' = [ux EXCEPT ![box] = ~@]
    /\ UNCHANGED << worker, errors, logged, localStorage, retry, terminal >>

\* saveUserPreferences(): safeLocalStorageSet logs an error when setItem
\* throws; this.userPreferences is set in both cases
saveUserPreferences ==
    /\ ux.pc = "ready"
    /\ logged < MaxLogged
    /\ IF localStorage.full
       THEN LogIf(TRUE)
       ELSE /\ localStorage' = [localStorage EXCEPT !.items["pocketgnu_preferences"] =
                                   << StringifyPreferences(Preferences(ux)) >>]
            /\ UNCHANGED << errors, logged >>
    /\ ux' = [ux EXCEPT !.userPreferences = << Preferences(ux) >>]
    /\ UNCHANGED << worker, retry, terminal >>

\* resetUserPreferences()
resetUserPreferences ==
    /\ ux.pc = "ready"
    /\ localStorage' = removeItem(localStorage, "pocketgnu_preferences")
    /\ ux' = [ux EXCEPT !.userPreferences = << >>, !.currentTheme = "default",
                        !.classList = @ \ {"compact-layout", "no-animations"}]
    /\ UNCHANGED << worker, errors, logged, retry, terminal >>

\* The page is left and loaded again
Reload ==
    /\ ux.pc = "ready"
    /\ ux' = UXIdle
    /\ UNCHANGED << worker, errors, logged, localStorage, retry, terminal >>

NextPreferences ==
    \/ \E dialog \in BOOLEAN : AdvancedUX(dialog)
    \/ loadUserPreferences
    \/ \E theme \in Themes : handleThemeSelection(theme)
    \/ \E box \in {"compactLayout", "showAnimations"} : Click(box)
    \/ saveUserPreferences
    \/ resetUserPreferences
    \/ Reload

SpecPreferences ==
    InitErrors /\ [][NextPreferences]_vars

(***************************************************************************)
(* Specifications                                                          *)
(***************************************************************************)
Lifecycle ==
    \/ InstallEvent
    \/ \E bad \in SUBSET (1..Len(CRITICAL_RESOURCES)) : CriticalSettles(bad)
    \/ \E i \in 1..Len(STATIC_RESOURCES), ok \in BOOLEAN : StaticAddSettles(i, ok)
    \/ ActivateEvent
    \/ ActivateSettles

Serve ==
    \/ \E r \in 1..Len(reqs) : cacheFirst_Match(r)
    \/ \E r \in 1..Len(reqs), result \in FetchResults : cacheFirst_Fetch(r, result)
    \/ \E r \in 1..Len(reqs) : cacheFirst_Open(r)
    \/ \E r \in 1..Len(reqs), result \in FetchResults : networkFirst_Fetch(r, result)
    \/ \E r \in 1..Len(reqs) : networkFirst_Open(r)
    \/ \E r \in 1..Len(reqs) : networkFirst_Match(r)
    \/ \E r \in 1..Len(reqs) : staleWhileRevalidate_Match(r)
    \/ \E r \in 1..Len(reqs), result \in FetchResults : staleWhileRevalidate_Fetch(r, result)
    \/ \E r \in 1..Len(reqs) : staleWhileRevalidate_Open(r)
    \/ \E p \in puts : PutSettles(p)

\* The worker as the browser drives it
Next ==
    \/ Lifecycle
    \/ \E url \in FetchURLs : FetchEvent(url)
    \/ Serve

Spec ==
    Init /\ [][Next]_vars

\* The worker is installed and activated over what earlier workers left
NextUpgrade ==
    \/ Lifecycle
    \/ \E name \in activate.deleting, ok \in DeleteResults :
          ActivateDeleteSettles(name, ok)

SpecUpgrade ==
    InitUpgrade /\ [][NextUpgrade]_vars

\* The script is evaluated in a browser where an earlier worker left a
\* dynamic partition of the previous version and one of this version
InitAll ==
    /\ lifecycle = "parsed"
    /\ install = [critical |-> "idle",
                  adds |-> [i \in 1..Len(STATIC_RESOURCES) |-> "idle"],
                  waitUntil |-> "idle",
                  skipWaiting |-> FALSE,
                  static |-> 0,
                  dynamic |-> 0]
    /\ activate = [deleting |-> {}, failed |-> FALSE, claimed |-> FALSE]
    /\ caches = << Left(OLD_DYNAMIC_CACHE, { ORIGIN \o P_LOGO_PNG }),
                   Left(DYNAMIC_CACHE, { ORIGIN \o P_LOGO_PNG }) >>
    /\ metrics = [cacheHits |-> 0, cacheMisses |-> 0, networkRequests |-> 0, errors |-> 0]
    /\ reqs = << >>
    /\ puts = {}
    /\ msgs = << >>
    /\ cleanups = << >>
    /\ clock = 2 * maxAge
    /\ PageIdle

\* The events of one behaviour are counted together, and dispatched once
\* the cache.add calls of the install have settled
Budget ==
    /\ Len(reqs) + Len(msgs) + Len(cleanups) < MaxEvents
    /\ \A i \in DOMAIN install.adds : install.adds[i] \in {"ok", "failed"}

AllMessages ==
    { d \in MessageInputs :
         d.type \in {"GET_METRICS", "CLEAR_CACHE"} \/ d.urls = << P_ICON_PNG >> }

\* The worker with all its listeners; the install either stores every
\* resource or fails on its first critical resource, and the deletions of
\* CLEAR_CACHE resolve
NextAll ==
    \/ InstallEvent
    \/ \E bad \in {{}, {1}} : CriticalSettles(bad)
    \/ \E i \in 1..Len(STATIC_RESOURCES) : StaticAddSettles(i, TRUE)
    \/ ActivateEvent
    \/ ActivateSettles
    \/ \E name \in activate.deleting, ok \in DeleteResults :
          ActivateDeleteSettles(name, ok)
    \/ \E url \in FetchURLs : Budget /\ FetchEvent(url)
    \/ Serve
    \/ \E d \in AllMessages : Budget /\ MessageEvent(d.type, d.hasUrls, d.urls)
    \/ \E k \in 1..Len(msgs) : ClearKeys(k)
    \/ \E k \in 1..Len(msgs) : \E name \in msgs[k].deleting :
          ClearDeleteSettles(k, name, TRUE)
    \/ \E k \in 1..Len(msgs) : \E i \in msgs[k].pending, result \in FetchResults :
          PrefetchAddSettles(k, i, result)
    \/ Budget /\ PeriodicSyncEvent("cache-cleanup")
    \/ Cleanup

SpecAll ==
    InitAll /\ [][NextAll]_vars

\* The worker is active, the static partition holds the critical resources
\* and the dynamic partition is empty
InitRace ==
    /\ lifecycle = "activated"
    /\ install = [critical |-> "ok",
                  adds |-> [i \in 1..Len(STATIC_RESOURCES) |-> "failed"],
                  waitUntil |-> "fulfilled",
                  skipWaiting |-> TRUE,
                  static |-> 1,
                  dynamic |-> 2]
    /\ activate = [deleting |-> {}, failed |-> FALSE, claimed |-> TRUE]
    /\ caches = << [name |-> STATIC_CACHE,
                    entries |-> [u \in { Resolve(CRITICAL_RESOURCES[k]) :
                                           k \in 1..Len(CRITICAL_RESOURCES) } |->
                                    Stored(u, DateAt(2 * maxAge))],
                    live |-> TRUE],
                   [name |-> DYNAMIC_CACHE, entries |-> << >>, live |-> TRUE] >>
    /\ metrics = [cacheHits |-> 0, cacheMisses |-> 0, networkRequests |-> 0, errors |-> 0]
    /\ reqs = << >>
    /\ puts = {}
    /\ msgs = << >>
    /\ cleanups = << >>
    /\ clock = 2 * maxAge
    /\ PageIdle

\* URLs no partition holds, one of each storing strategy
RaceURLs ==
    { ORIGIN \o P_LOGO_PNG,          \* cache-first
      ORIGIN \o P_WOFF2,             \* network-first
      ORIGIN \o P_STYLES_CSS }       \* stale-while-revalidate

\* A fetch event for url while every earlier request, of the same url, has
\* not been answered yet
RaceEvent(url) ==
    /\ \A r \in 1..Len(reqs) : reqs[r].url = url /\ reqs[r].hres = "pending"
    /\ FetchEvent(url)

\* Requests of one URL in flight together
NextRace ==
    \/ \E url \in RaceURLs : RaceEvent(url)
    \/ Serve

SpecRace ==
    InitRace /\ [][NextRace]_vars

\* Requests of every method and scheme reach the fetch listener
NextListener ==
    \/ Lifecycle
    \/ \E method \in Methods, url \in ListenerURLs : FetchListener(method, url)
    \/ \E r \in 1..Len(reqs) : cacheFirst_Match(r)
    \/ \E r \in 1..Len(reqs), result \in FetchResults : cacheFirst_Fetch(r, result)
    \/ \E r \in 1..Len(reqs) : cacheFirst_Open(r)
    \/ \E p \in puts : PutSettles(p)

SpecListener ==
    Init /\ [][NextListener]_vars

\* handleRequest called directly with the strategies of CallStrategies
NextCall ==
    \/ Lifecycle
    \/ \E url \in CallURLs, strategy \in CallStrategies : CallHandleRequest(url, strategy)
    \/ \E r \in 1..Len(reqs) : cacheFirst_Match(r)
    \/ \E r \in 1..Len(reqs), result \in FetchResults : cacheFirst_Fetch(r, result)
    \/ \E r \in 1..Len(reqs) : cacheFirst_Open(r)
    \/ \E p \in puts : PutSettles(p)
    \/ \E r \in 1..Len(reqs) : cacheOnly_Match(r)
    \/ \E r \in 1..Len(reqs), result \in FetchResults : networkOnly_Fetch(r, result)

SpecCall ==
    Init /\ [][NextCall]_vars

\* The stale-while-revalidate URLs: a critical resource (static partition)
\* and a non-critical one (dynamic partition)
RevalidateURLs ==
    { ORIGIN \o P_UTILS_JS, ORIGIN \o P_STYLES_CSS }

\* The worker serving requests of the stale-while-revalidate URLs
NextRevalidate ==
    \/ Lifecycle
    \/ \E url \in RevalidateURLs : FetchEvent(url)
    \/ \E r \in 1..Len(reqs) : staleWhileRevalidate_Match(r)
    \/ \E r \in 1..Len(reqs), result \in FetchResults : staleWhileRevalidate_Fetch(r, result)
    \/ \E r \in 1..Len(reqs) : staleWhileRevalidate_Open(r)
    \/ \E p \in puts : PutSettles(p)

\* with the scheduling of promise reactions: a settled caches.open and an
\* issued cache.put complete. Nothing is assumed of the network.
SpecRevalidate ==
    /\ Init /\ [][NextRevalidate]_vars
    /\ WF_vars(\E r \in 1..Len(reqs) : staleWhileRevalidate_Open(r))
    /\ WF_vars(\E p \in puts : PutSettles(p))

\* The fetch listener classifying the URLs of ClassifyURLs
NextClassify ==
    \/ Lifecycle
    \/ \E url \in ClassifyURLs : FetchEvent(url)

SpecClassify ==
    Init /\ [][NextClassify]_vars

C2_InstallAborts ==
    install.critical = "failed" =>
        /\ install.waitUntil # "fulfilled"
        /\ metrics.errors >= 1
        /\ lifecycle \notin {"installed", "activating", "activated"}

(***************************************************************************)
(* C3, C4  Classification                                                  *)
(***************************************************************************)
\* the patterns of CACHE_PATTERNS that url matches
Matching(url) ==
    { i \in DOMAIN CACHE_PATTERNS : Test(CACHE_PATTERNS[i].pattern, url) }

\* C3: the strategy of every classified URL is the strategy of the first
\* pattern of CACHE_PATTERNS that matches it, and network-first when no
\* pattern matches.
C3_FirstMatchWins ==
    \A r \in 1..Len(reqs) :
        LET M == Matching(reqs[r].url)
        IN  IF M = {}
            THEN reqs[r].strategy = NETWORK_FIRST
            ELSE \E i \in M :
                    /\ \A j \in M : i <= j
                    /\ reqs[r].strategy = CACHE_PATTERNS[i].strategy

\* a URL that two patterns with different strategies match, and one that no
\* pattern matches, have been classified
C3_Witness ==
    \E r1, r2 \in 1..Len(reqs) :
        /\ \E i, j \in Matching(reqs[r1].url) :
              CACHE_PATTERNS[i].strategy # CACHE_PATTERNS[j].strategy
        /\ Matching(reqs[r2].url) = {}
        /\ reqs[r2].strategy = NETWORK_FIRST

\* C4: a URL that ends in .js or .css is stale-while-revalidate and a URL
\* that ends in an image extension is cache-first, on every host, the font
\* hosts included.
C4_ExtensionDecides ==
    \A r \in 1..Len(reqs) :
        LET url == reqs[r].url
        IN  /\ (EndsWith(url, EXT_JS) \/ EndsWith(url, EXT_CSS))
                  => reqs[r].strategy = STALE_WHILE_REVALIDATE
            /\ (\E e \in {EXT_PNG, EXT_JPG, EXT_JPEG, EXT_SVG, EXT_GIF, EXT_WEBP} :
                   EndsWith(url, e))
                  => reqs[r].strategy = CACHE_FIRST

\* an image on the stale-while-revalidate font host and a script on the
\* cache-first font host have been classified
C4_Witness ==
    \E r1, r2 \in 1..Len(reqs) :
        /\ reqs[r1].url = FONTS_API \o P_ICON_PNG
        /\ reqs[r1].strategy = CACHE_FIRST
        /\ reqs[r2].url = FONTS_STATIC \o P_A_JS
        /\ reqs[r2].strategy = STALE_WHILE_REVALIDATE

(***************************************************************************)
(* C5  cacheFirst on a miss                                                *)
(***************************************************************************)
\* the cache.put calls request r has issued
PutsOf(r) ==
    { p \in puts : p.req = r }

\* the entry of url in partition name, NoResponse when there is none
Entry(name, url) ==
    IF Named(caches, name) # 0 /\ url \in DOMAIN caches[Named(caches, name)].entries
    THEN caches[Named(caches, name)].entries[url]
    ELSE NoResponse

\* caches.match of a cache-first request settles with no entry in any
\* partition: one miss and one network request are counted, no hit, and the
\* fetch is issued
C5_MissStep ==
    \A r \in 1..Len(reqs) :
        (/\ reqs[r].pc = "cf_match"
         /\ reqs'[r].pc # "cf_match"
         /\ Match(caches, reqs[r].url) = NoResponse)
        => /\ reqs'[r].pc = "cf_fetch"
           /\ reqs'[r].fetches = 1
           /\ metrics' = [metrics EXCEPT !.cacheMisses = @ + 1, !.networkRequests = @ + 1]
           /\ puts' = puts
           /\ caches' = caches

\* a cache-first request that found no entry and got a 2xx response has
\* returned that response and has issued exactly one cache.put, into the
\* dynamic partition, of that response under its own URL
C5_MissResult ==
    \A r \in 1..Len(reqs) :
        (/\ reqs[r].strategy = CACHE_FIRST
         /\ reqs[r].pc = "done"
         /\ reqs[r].cachedResponse = NoResponse
         /\ reqs[r].netResp # NoResponse
         /\ Ok(reqs[r].netResp))
        => /\ reqs[r].hres = "fulfilled"
           /\ reqs[r].resp = reqs[r].netResp
           /\ Cardinality(PutsOf(r)) = 1
           /\ \A p \in PutsOf(r) :
                 /\ p.cache = DYNAMIC_CACHE
                 /\ p.url = reqs[r].url
                 /\ p.response = reqs[r].netResp
                 /\ p.applied => Entry(DYNAMIC_CACHE, p.url) # NoResponse
           /\ reqs[r].fetches = 1
           /\ reqs[r].dMisses = 1
           /\ reqs[r].dNet = 1
           /\ reqs[r].dHits = 0

\* C5: cache-first with no cached entry and a 2xx network response: one
\* cache write into the dynamic partition for the request, the network
\* response returned, cacheMisses and networkRequests one higher each,
\* cacheHits unchanged.
C5_CacheFirstMiss ==
    [][C5_MissStep]_vars /\ []C5_MissResult

\* a cache-first miss has returned the 2xx network response and its put has
\* landed in the dynamic partition
C5_Witness ==
    \E r \in 1..Len(reqs) :
        /\ reqs[r].strategy = CACHE_FIRST
        /\ reqs[r].pc = "done"
        /\ reqs[r].cachedResponse = NoResponse
        /\ Ok(reqs[r].netResp)
        /\ reqs[r].resp = reqs[r].netResp
        /\ \E p \in PutsOf(r) : p.applied
        /\ Entry(DYNAMIC_CACHE, reqs[r].url) = reqs[r].netResp

(***************************************************************************)
(* C6  networkFirst when the network fails                                 *)
(***************************************************************************)
\* the fallback caches.match of a network-first request settles
C6_FallbackStep ==
    \A r \in 1..Len(reqs) :
        (reqs[r].pc = "nf_match" /\ reqs'[r].pc # "nf_match")
        => IF Match(caches, reqs[r].url) # NoResponse
           THEN /\ reqs'[r].hres = "fulfilled"
                /\ reqs'[r].resp = Match(caches, reqs[r].url)
                /\ reqs'[r].resp # TimeoutResponse
                /\ metrics' = [metrics EXCEPT !.cacheHits = @ + 1]
           ELSE /\ reqs'[r].hres = "rejected"
                /\ reqs'[r].error = "network"
                /\ metrics'.cacheMisses = metrics.cacheMisses + 1
                /\ metrics'.cacheHits = metrics.cacheHits

\* the fallback is taken exactly by the network-first requests whose fetch
\* has failed
C6_FallbackOnFailure ==
    \A r \in 1..Len(reqs) :
        /\ reqs[r].pc = "nf_match" => reqs[r].netResp = NoResponse /\ reqs[r].fetches = 1
        /\ (reqs[r].strategy = NETWORK_FIRST /\ reqs[r].pc = "done"
              /\ reqs[r].netResp = NoResponse)
           => /\ reqs[r].matches = 1
              /\ reqs[r].hres = "fulfilled"
                    => /\ reqs[r].resp = reqs[r].cachedResponse
                       /\ reqs[r].resp # NoResponse
                       /\ reqs[r].dHits = 1 /\ reqs[r].dMisses = 0 /\ reqs[r].dErrs = 0
              /\ reqs[r].hres = "rejected"
                    => /\ reqs[r].cachedResponse = NoResponse
                       /\ reqs[r].dHits = 0 /\ reqs[r].dMisses = 1

\* C6: network-first whose fetch fails returns the cached entry when there
\* is one, with a hit, no error and no 408, and otherwise rejects with the
\* network failure, with a miss.
C6_NetworkFirstFallback ==
    [][C6_FallbackStep]_vars /\ []C6_FallbackOnFailure

\* a network-first request whose fetch failed has returned the cached entry
C6_Witness ==
    \E r \in 1..Len(reqs) :
        /\ reqs[r].strategy = NETWORK_FIRST
        /\ reqs[r].pc = "done"
        /\ reqs[r].netResp = NoResponse
        /\ reqs[r].hres = "fulfilled"
        /\ reqs[r].resp = reqs[r].cachedResponse
        /\ reqs[r].resp # NoResponse
        /\ metrics.errors = 0

(***************************************************************************)
(* C7  cacheOnly                                                           *)
(***************************************************************************)
\* caches.match of a cache-only request settles
C7_MatchStep ==
    \A r \in 1..Len(reqs) :
        (reqs[r].pc = "co_match" /\ reqs'[r].pc # "co_match")
        => /\ reqs'[r].pc = "done"
           /\ caches' = caches
           /\ puts' = puts
          
           /\ reqs'[r].fetches = 0
           /\ IF Match(caches, reqs[r].url) = NoResponse
              THEN /\ reqs'[r].hres = "rejected"
                   /\ reqs'[r].error = "Resource not in cache"
                   /\ metrics' = [metrics EXCEPT !.cacheMisses = @ + 1]
              ELSE /\ reqs'[r].hres = "fulfilled"
                   /\ reqs'[r].resp = Match(caches, reqs[r].url)
                   /\ metrics' = [metrics EXCEPT !.cacheHits = @ + 1]

\* a cache-only request never has a fetch or a cache.put of its own
C7_NoNetwork ==
    \A r \in 1..Len(reqs) :
        reqs[r].strategy = CACHE_ONLY
        => /\ reqs[r].fetches = 0
           /\ reqs[r].netResp = NoResponse
           /\ PutsOf(r) = {}
           /\ reqs[r].dNet = 0

\* C7: cache-only fails with 'Resource not in cache' and one miss when there
\* is no cached entry, returns the entry with one hit when there is one, and
\* issues no network fetch and no cache write in either case.
C7_CacheOnly ==
    [][C7_MatchStep]_vars /\ []C7_NoNetwork

\* one cache-only call has failed on a miss and another has returned an entry
C7_Witness ==
    \E r1, r2 \in 1..Len(reqs) :
        /\ reqs[r1].strategy = CACHE_ONLY /\ reqs[r1].hres = "rejected"
        /\ reqs[r1].error = "Resource not in cache" /\ reqs[r1].dMisses = 1
        /\ reqs[r2].strategy = CACHE_ONLY /\ reqs[r2].hres = "fulfilled"
        /\ reqs[r2].resp # NoResponse /\ reqs[r2].dHits = 1

(***************************************************************************)
(* C8  staleWhileRevalidate with a cached entry                            *)
(***************************************************************************)
\* request r is a stale-while-revalidate request that found a cached entry
ServedStale(r) ==
    /\ r <= Len(reqs)
    /\ reqs[r].strategy = STALE_WHILE_REVALIDATE
    /\ reqs[r].matches = 1
    /\ reqs[r].cachedResponse # NoResponse

\* caches.match of a stale-while-revalidate request settles with an entry:
\* the entry is returned in that step, with a hit, and the fetch is issued
C8_HitStep ==
    \A r \in 1..Len(reqs) :
        (/\ reqs[r].pc = "swr_match"
         /\ reqs'[r].pc # "swr_match"
         /\ Match(caches, reqs[r].url) # NoResponse)
        => /\ reqs'[r].pc = "done"
           /\ reqs'[r].hres = "fulfilled"
           /\ reqs'[r].resp = Match(caches, reqs[r].url)
           /\ reqs'[r].bg = "fetching"
           /\ reqs'[r].fetches = 1
           /\ metrics'.cacheHits = metrics.cacheHits + 1

\* the cached entry stays the response in every state of the background
\* fetch, the one in which it has not completed included
C8_Served ==
    \A r \in 1..Len(reqs) :
        ServedStale(r)
        => /\ reqs[r].pc = "done"
           /\ reqs[r].hres = "fulfilled"
           /\ reqs[r].resp = reqs[r].cachedResponse
           /\ reqs[r].dHits = 1
           /\ reqs[r].fetches = 1
           /\ reqs[r].bg \in {"fetching", "open", "done", "failed"}

C9_FailureStep ==
    \A r \in 1..Len(reqs) :
        (reqs[r].pc = "done" /\ reqs[r].bg = "fetching" /\ reqs'[r].bg = "failed")
        => /\ reqs'[r].resp = reqs[r].resp
           /\ reqs'[r].hres = "fulfilled"
           /\ reqs'[r].pc = "done"
           /\ caches' = caches
           /\ puts' = puts

\* staleWhileRevalidate never rejects and never ends in the 408 response; a
\* request served from the cache keeps the cached entry as its response
\* after the refresh has failed
C9_NeverSurfaced ==
    \A r \in 1..Len(reqs) :
        reqs[r].strategy = STALE_WHILE_REVALIDATE
        => /\ reqs[r].hres # "rejected"
           /\ reqs[r].resp # TimeoutResponse
           /\ reqs[r].dErrs = 0
           /\ (ServedStale(r) /\ reqs[r].bg = "failed")
                 => /\ reqs[r].resp = reqs[r].cachedResponse
                    /\ PutsOf(r) = {}

\* C9: a failure of the background refresh of stale-while-revalidate is not
\* surfaced: the caller's response stays the cached entry, no 408 is
\* produced, the cache entry is unchanged and staleWhileRevalidate does not
\* reject.
C9_RefreshFailureSwallowed ==
    [][C9_FailureStep]_vars /\ []C9_NeverSurfaced

\* a request was served from the cache and its background fetch has failed
C9_Witness ==
    \E r \in 1..Len(reqs) :
        /\ ServedStale(r)
        /\ reqs[r].bg = "failed"
        /\ reqs[r].resp = reqs[r].cachedResponse
        /\ Match(caches, reqs[r].url) = reqs[r].cachedResponse

(***************************************************************************)
(* C10  networkOnly                                                        *)
(***************************************************************************)
\* a step that starts or advances a network-only request leaves the
\* partitions, the pending writes and the hit and miss counters unchanged
C10_Frame ==
    \A r \in 1..Len(reqs') :
        (/\ reqs'[r].strategy = NETWORK_ONLY
         /\ (r > Len(reqs) \/ reqs'[r] # reqs[r]))
        => /\ caches' = caches
           /\ puts' = puts
           /\ metrics'.cacheHits = metrics.cacheHits
           /\ metrics'.cacheMisses = metrics.cacheMisses
           /\ metrics'.networkRequests =
                 metrics.networkRequests + (IF r > Len(reqs) THEN 1 ELSE 0)

\* a network-only request has issued one fetch and counted one network
\* request, and has no caches.match and no cache.put
C10_OneFetch ==
    \A r \in 1..Len(reqs) :
        reqs[r].strategy = NETWORK_ONLY
        => /\ reqs[r].fetches = 1
           /\ reqs[r].dNet = 1
           /\ reqs[r].matches = 0
           /\ reqs[r].cachedResponse = NoResponse
           /\ PutsOf(r) = {}
           /\ reqs[r].dHits = 0
           /\ reqs[r].dMisses = 0
           /\ reqs[r].hres = "fulfilled" => reqs[r].resp = reqs[r].netResp

\* C10: network-only issues one fetch and records one network request per
\* call, reads and writes no partition and leaves the hit and miss counters
\* unchanged, whether the fetch succeeds or fails.
C10_NetworkOnly ==
    [][C10_Frame]_vars /\ []C10_OneFetch

\* one network-only call has returned a 2xx response and another has failed
C10_Witness ==
    \E r1, r2 \in 1..Len(reqs) :
        /\ reqs[r1].strategy = NETWORK_ONLY /\ reqs[r1].hres = "fulfilled"
        /\ Ok(reqs[r1].netResp) /\ reqs[r1].resp = reqs[r1].netResp
        /\ reqs[r2].strategy = NETWORK_ONLY /\ reqs[r2].hres = "rejected"
        /\ metrics.networkRequests = 2
        /\ puts = {}

(***************************************************************************)
(* C11                                                                     *)
(***************************************************************************)
\* the three strategies the fetch listener dispatches that write the cache
Storing ==
    {CACHE_FIRST, NETWORK_FIRST, STALE_WHILE_REVALIDATE}

\* every cache.put a strategy issues is called on the dynamic partition
\* with the 2xx response its request obtained from the network; every entry
\* a partition holds has a 2xx status
C11_OnlyOkStored ==
    /\ \A p \in puts :
          /\ p.cache = DYNAMIC_CACHE
          /\ caches[p.target].name = DYNAMIC_CACHE
          /\ Ok(p.response)
          /\ p.response = reqs[p.req].netResp
    /\ \A i \in 1..Len(caches) : \A u \in DOMAIN caches[i].entries :
          Ok(caches[i].entries[u])

\* a request whose fetch was answered with a status outside 200-299 issues
\* no cache.put, and when it had no cached response to serve it returns
\* that network response
C11_NotOkReturned ==
    \A r \in 1..Len(reqs) :
        (/\ reqs[r].strategy \in Storing
         /\ reqs[r].netResp # NoResponse
         /\ ~Ok(reqs[r].netResp))
        => /\ PutsOf(r) = {}
           /\ reqs[r].cachedResponse = NoResponse
                 => /\ reqs[r].pc = "done"
                    /\ reqs[r].hres = "fulfilled"
                    /\ reqs[r].resp = reqs[r].netResp

\* a step of a strategy or of one of its cache.put calls leaves every
\* partition named STATIC_CACHE as it was and creates none
C11_StaticFrame ==
    (reqs' # reqs \/ puts' # puts)
    => /\ \A i \in 1..Len(caches) :
             caches[i].name = STATIC_CACHE => caches'[i] = caches[i]
       /\ \A i \in 1..Len(caches') :
             caches'[i].name = STATIC_CACHE => i <= Len(caches)

\* C11: serving stores only 2xx network responses and only in the dynamic
\* partition: under cache-first, network-first and stale-while-revalidate a
\* response with another status is returned to the caller waiting for the
\* network and never stored, and no strategy adds, replaces or removes an
\* entry of the static partition.
C11_ServingWritesOnlyOkToDynamic ==
    [][C11_StaticFrame]_vars /\ [](C11_OnlyOkStored /\ C11_NotOkReturned)

\* a request has returned the 404 the network answered with, no partition
\* holds an entry for it, and a 2xx response has been stored by a cache.put
C11_Witness ==
    /\ \E r \in 1..Len(reqs) :
          /\ reqs[r].pc = "done"
          /\ reqs[r].netResp.status = 404
          /\ reqs[r].resp = reqs[r].netResp
          /\ Match(caches, reqs[r].url) = NoResponse
    /\ \E p \in puts : p.applied /\ Entry(DYNAMIC_CACHE, p.url) = p.response

(***************************************************************************)
(* C12                                                                     *)
(***************************************************************************)
\* the fetch event of record q is one the listener has to ignore
Foreign(q) ==
    q.method # "GET" \/ ~StartsWith(Protocol(q.url), HTTP_PREFIX)

\* the dispatch of a fetch event for a request that is not GET, or whose
\* scheme is not http(s), changes no counter, no partition and no cache.put
C12_IgnoredStep ==
    (Len(reqs') = Len(reqs) + 1 /\ Foreign(reqs'[Len(reqs')]))
    => /\ metrics' = metrics
       /\ caches' = caches
       /\ puts' = puts
       /\ reqs'[Len(reqs')].via = "ignored"

\* such an event never gets a respondWith, a strategy, a caches.match, a
\* fetch, a cache.put or a share of a counter
C12_Untouched ==
    \A r \in 1..Len(reqs) :
        Foreign(reqs[r])
        => /\ reqs[r].via = "ignored"
           /\ reqs[r].strategy = ""
           /\ reqs[r].pc = "start"
           /\ reqs[r].hres = "pending"
           /\ reqs[r].resp = NoResponse
           /\ reqs[r].matches = 0
           /\ reqs[r].fetches = 0
           /\ reqs[r].dHits = 0
           /\ reqs[r].dMisses = 0
           /\ reqs[r].dNet = 0
           /\ reqs[r].dErrs = 0
           /\ PutsOf(r) = {}

\* C12: a request whose method is not GET, or whose URL scheme is not
\* http/https, is ignored by the fetch listener: respondWith is not called,
\* no strategy runs, no counter changes and no partition is read or written.
C12_ForeignRequestsIgnored ==
    [][C12_IgnoredStep]_vars /\ []C12_Untouched

\* a POST of an http URL and a GET of a chrome-extension URL have been
\* dispatched and ignored
C12_Witness ==
    /\ \E r \in 1..Len(reqs) :
          /\ reqs[r].method = "POST"
          /\ StartsWith(Protocol(reqs[r].url), HTTP_PREFIX)
          /\ reqs[r].via = "ignored"
    /\ \E r \in 1..Len(reqs) :
          /\ reqs[r].method = "GET"
          /\ ~StartsWith(Protocol(reqs[r].url), HTTP_PREFIX)
          /\ reqs[r].via = "ignored"

(***************************************************************************)
(* C13                                                                     *)
(***************************************************************************)
Current ==
    {STATIC_CACHE, DYNAMIC_CACHE}

\* clients.claim() is called in a state where every caches.delete of the
\* activate listener has settled, none has failed, and CacheStorage holds
\* no partition of another name
C13_ClaimStep ==
    (activate'.claimed /\ ~activate.claimed)
    => /\ activate.deleting = {}
       /\ ~activate.failed
       /\ CacheNames(caches) \subseteq Current
       /\ caches' = caches

\* a step of the activate listener leaves the partitions named STATIC_CACHE
\* and DYNAMIC_CACHE and their entries as they were
C13_CurrentKept ==
    (activate' # activate)
    => \A i \in 1..Len(caches) :
           caches[i].name \in Current => caches'[i] = caches[i]

\* a caches.delete the activate listener called is for a name other than
\* the two current ones, and when it resolves CacheStorage no longer holds
\* that partition
C13_DeleteStep ==
    /\ activate'.deleting \cap Current = {}
    /\ \A name \in activate.deleting \ activate'.deleting :
          (caches' # caches) => name \notin CacheNames(caches')

\* once the worker is active without a failed deletion, control has been
\* claimed and only the two current partitions are left
C13_OthersDeleted ==
    (lifecycle = "activated" /\ ~activate.failed)
    => /\ activate.claimed
       /\ CacheNames(caches) \subseteq Current

\* C13: on activation every partition whose name is neither the current
\* static nor the current dynamic name is deleted, the two current
\* partitions are kept with their entries, and clients.claim() happens only
\* after all those deletions have completed.
C13_ActivationCleansOldPartitions ==
    [][C13_ClaimStep /\ C13_CurrentKept /\ C13_DeleteStep]_vars /\ []C13_OthersDeleted

\* control has been claimed after three partitions of other names were
\* found and deleted, with the dynamic partition an earlier install left
\* still holding its entry
C13_Witness ==
    /\ activate.claimed
    /\ \A name \in {OLD_STATIC_CACHE, OLD_DYNAMIC_CACHE, CACHE_NAME} :
          \E i \in 1..Len(caches) : caches[i].name = name /\ ~caches[i].live
    /\ Entry(DYNAMIC_CACHE, ORIGIN \o P_LOGO_PNG) # NoResponse
    /\ Entry(STATIC_CACHE, Resolve(P_UTILS_JS)) # NoResponse

(***************************************************************************)
(* C14                                                                     *)
(***************************************************************************)
CriticalURLs ==
    { Resolve(CRITICAL_RESOURCES[k]) : k \in 1..Len(CRITICAL_RESOURCES) }

NonCriticalURLs ==
    { Resolve(STATIC_RESOURCES[k]) : k \in 1..Len(STATIC_RESOURCES) }

\* once cache.addAll(CRITICAL_RESOURCES) has succeeded the static partition
\* holds one 2xx entry for each critical resource and no other entry, none
\* of a non-critical resource in particular
C14_StaticIsCritical ==
    install.critical = "ok"
    => /\ Named(caches, STATIC_CACHE) = install.static
       /\ DOMAIN caches[install.static].entries = CriticalURLs
       /\ \A u \in CriticalURLs :
             /\ caches[install.static].entries[u].url = u
             /\ Ok(caches[install.static].entries[u])
       /\ \A u \in NonCriticalURLs : Entry(STATIC_CACHE, u) = NoResponse

\* once this version is active without a failed deletion, CacheStorage
\* holds no partition under a name of the previous version
C14_PreviousDeleted ==
    (lifecycle = "activated" /\ ~activate.failed)
    => CacheNames(caches) \cap {OLD_STATIC_CACHE, OLD_DYNAMIC_CACHE} = {}

\* C14: after an install in which every critical resource is cached the
\* static partition contains exactly the critical resources, no
\* non-critical resource is stored in it, and the activation of a version
\* with other partition names deletes every partition created under the
\* previous names.
C14_StaticExactlyCritical ==
    C14_StaticIsCritical /\ C14_PreviousDeleted

\* the worker is active over a static partition with its six entries, both
\* non-critical resources are stored, and the two partitions of the
\* previous version have been deleted
C14_Witness ==
    /\ lifecycle = "activated"
    /\ install.critical = "ok"
    /\ Cardinality(DOMAIN caches[install.static].entries) = Len(CRITICAL_RESOURCES)
    /\ \A i \in DOMAIN install.adds : install.adds[i] = "ok"
    /\ \A name \in {OLD_STATIC_CACHE, OLD_DYNAMIC_CACHE} :
          \E i \in 1..Len(caches) : caches[i].name = name /\ ~caches[i].live

(***************************************************************************)
(* C15                                                                     *)
(***************************************************************************)
\* the step that ends an install whose critical resources are all cached
\* fulfils the promise given to event.waitUntil, has called skipWaiting and
\* counts no error, whatever cache.add calls have failed
C15_CompletionStep ==
    (/\ install'.critical = "ok"
     /\ \A i \in DOMAIN install'.adds : install'.adds[i] \in {"ok", "failed"}
     /\ install' # install)
    => /\ install'.waitUntil = "fulfilled"
       /\ install'.skipWaiting
       /\ lifecycle' = "installed"
       /\ metrics' = metrics
       /\ metrics.errors = 0

\* a cache.add that fails changes no counter and no partition
C15_FailedAddStep ==
    \A i \in DOMAIN install.adds :
        (install.adds[i] = "pending" /\ install'.adds[i] = "failed")
        => metrics' = metrics /\ caches' = caches

\* after such an install the worker is installed, and the dynamic partition
\* holds the response of every non-critical resource whose cache.add
\* succeeded
C15_Installed ==
    (/\ install.critical = "ok"
     /\ \A i \in DOMAIN install.adds : install.adds[i] \in {"ok", "failed"})
    => /\ install.waitUntil = "fulfilled"
       /\ install.skipWaiting
       /\ lifecycle \in {"installed", "activating", "activated"}
       /\ \A i \in DOMAIN install.adds :
             install.adds[i] = "ok"
             => /\ Named(caches, DYNAMIC_CACHE) = install.dynamic
                /\ Ok(Entry(DYNAMIC_CACHE, Resolve(STATIC_RESOURCES[i])))

\* C15: install tolerates the failure of any subset of the non-critical
\* resources: when all critical resources are cached the install completes
\* successfully, skipWaiting is called, the errors counter is unchanged and
\* the non-critical resources that succeeded are in the dynamic partition.
C15_NonCriticalFailuresTolerated ==
    [][C15_CompletionStep /\ C15_FailedAddStep]_vars /\ []C15_Installed

\* the install has completed with the first non-critical resource stored
\* and the second failed, and no error counted
C15_Witness ==
    /\ install.critical = "ok"
    /\ install.adds[1] = "ok"
    /\ install.adds[2] = "failed"
    /\ install.skipWaiting
    /\ lifecycle = "installed"
    /\ metrics.errors = 0
    /\ Entry(DYNAMIC_CACHE, Resolve(STATIC_RESOURCES[1])) # NoResponse
    /\ Entry(DYNAMIC_CACHE, Resolve(STATIC_RESOURCES[2])) = NoResponse

(***************************************************************************)
(* C16                                                                     *)
(***************************************************************************)
\* the age of an entry with a readable date at the time of pass k
Age(k, entry) ==
    cleanups[k].now - entry.date.t

Dated(entry) ==
    entry.date.present /\ entry.date.valid

\* pass k has run every callback and every cache.delete it called
Finished(k) ==
    /\ cleanups[k].state \in {"fulfilled", "rejected"}
    /\ cleanups[k].pending = {}
    /\ cleanups[k].deleting = {}

\* an entry leaves a partition only from the dynamic partition and only
\* when a pass read it more than maxAge after its date; every other entry,
\* every entry of the static partition included, stays as it is
C16_DeleteStep ==
    \A i \in 1..Len(caches) :
        /\ caches'[i].name = caches[i].name
        /\ caches[i].name = STATIC_CACHE => caches'[i] = caches[i]
        /\ \A u \in DOMAIN caches[i].entries :
              IF u \in DOMAIN caches'[i].entries
              THEN caches'[i].entries[u] = caches[i].entries[u]
              ELSE /\ caches[i].name = DYNAMIC_CACHE
                   /\ Dated(caches[i].entries[u])
                   /\ \E k \in 1..Len(cleanups) :
                         /\ cleanups[k].cache = i
                         /\ u \in cleanups[k].keys
                         /\ Age(k, caches[i].entries[u]) > 7 * OneDay

\* when a pass has finished, no entry it found in the dynamic partition is
\* older than 7 days at the time of the pass
C16_ExpiredGone ==
    \A k \in 1..Len(cleanups) :
        Finished(k)
        => \A u \in cleanups[k].keys :
               LET entries == caches[cleanups[k].cache].entries
               IN  (u \in DOMAIN entries /\ Dated(entries[u]))
                   => Age(k, entries[u]) <= 7 * OneDay

\* C16: a cleanup pass deletes from the dynamic partition every entry whose
\* date header is more than 7 days older than the time of the pass, retains
\* the entries aged 7 days or less, and never touches the static partition.
C16_CleanupDeletesExpired ==
    [][C16_DeleteStep]_vars /\ []C16_ExpiredGone

\* a pass has finished that deleted an entry 8 days old and kept an entry
\* exactly 7 days old, the static partition still holding its 8 days old
\* entries
C16_Witness ==
    \E k \in 1..Len(cleanups) :
        LET entries == caches[cleanups[k].cache].entries
        IN  /\ cleanups[k].state = "fulfilled"
            /\ cleanups[k].keys = { ORIGIN \o P_LOGO_PNG, ORIGIN \o P_ICON_PNG }
            /\ DOMAIN entries = { ORIGIN \o P_LOGO_PNG }
            /\ cleanups[k].now - entries[ORIGIN \o P_LOGO_PNG].date.t = maxAge
            /\ Entry(STATIC_CACHE, Resolve(P_UTILS_JS)) # NoResponse

(***************************************************************************)
(* C17                                                                     *)
(***************************************************************************)
\* an entry without a date header, or with one that cannot be parsed, is
\* in its partition, unchanged, after every step
C17_UndatedKept ==
    \A i \in 1..Len(caches) : \A u \in DOMAIN caches[i].entries :
        ~Dated(caches[i].entries[u])
        => /\ u \in DOMAIN caches'[i].entries
           /\ caches'[i].entries[u] = caches[i].entries[u]

\* a pass that found an entry without a usable date has, once finished,
\* left that entry and deleted every entry older than 7 days it found; it
\* has not failed unless an entry it found was deleted under it by another
\* pass
C17_OthersEvaluated ==
    \A k \in 1..Len(cleanups) :
        LET entries == caches[cleanups[k].cache].entries
            undated == { u \in cleanups[k].keys :
                            u \in DOMAIN entries /\ ~Dated(entries[u]) }
        IN  (Finished(k) /\ undated # {})
            => /\ cleanups[k].state = "rejected"
                     => \E u \in cleanups[k].keys : u \notin DOMAIN entries
               /\ \A u \in cleanups[k].keys \ undated :
                     u \in DOMAIN entries => Age(k, entries[u]) <= 7 * OneDay

\* C17: an entry of the dynamic partition without a usable timestamp (date
\* header absent, or present and unparseable) is never deleted by any
\* number of cleanup passes, and does not keep a pass from evaluating and
\* deleting the other, expired entries.
C17_UndatedEntriesKept ==
    [][C17_UndatedKept]_vars /\ []C17_OthersEvaluated

\* two passes a day apart have finished over an entry with an unparseable
\* date, which is still there, and an expired entry, which is gone
C17_Witness ==
    /\ Len(cleanups) = 2
    /\ \A k \in 1..2 : cleanups[k].state = "fulfilled"
    /\ cleanups[2].now > cleanups[1].now
    /\ cleanups[1].keys = { ORIGIN \o P_LOGO_PNG, ORIGIN \o P_ICON_PNG }
    /\ cleanups[2].keys = { ORIGIN \o P_ICON_PNG }
    /\ Entry(DYNAMIC_CACHE, ORIGIN \o P_ICON_PNG).date = BadDate
    /\ Entry(DYNAMIC_CACHE, ORIGIN \o P_LOGO_PNG) = NoResponse

(***************************************************************************)
(* C18                                                                     *)
(***************************************************************************)
Prefetches ==
    { k \in 1..Len(msgs) : msgs[k].type = "PREFETCH_RESOURCES" /\ msgs[k].hasUrls }

\* a cache.add that fulfils has stored a 2xx response for its URL in the
\* dynamic partition the prefetch opened; one that rejects stores nothing;
\* either way the other cache.add calls of the prefetch stay as they are
C18_AddStep ==
    \A k \in Prefetches \cap (1..Len(msgs')) :
        \A i \in msgs[k].pending \ msgs'[k].pending :
            /\ msgs'[k].pending = msgs[k].pending \ {i}
            /\ \A j \in DOMAIN msgs[k].results : msgs'[k].results[j] = msgs[k].results[j]
            /\ caches'[msgs[k].cache].name = DYNAMIC_CACHE
            /\ IF msgs'[k].results[i].status = "fulfilled"
               THEN /\ Resolve(msgs[k].urls[i]) \in DOMAIN caches'[msgs[k].cache].entries
                    /\ Ok(caches'[msgs[k].cache].entries[Resolve(msgs[k].urls[i])])
               ELSE caches' = caches

\* a prefetch posts nothing before every cache.add has settled and one
\* PREFETCH_COMPLETE once they have, whatever failed; the reply lists one
\* result per URL in the order of the list, {url, success: true, error:
\* null} for a fulfilled add and {url, success: false, error: message} for
\* a rejected one
C18_Reply ==
    \A k \in Prefetches :
        LET g == msgs[k]
        IN  IF g.pending # {}
            THEN g.replies = << >>
            ELSE /\ Len(g.replies) = 1
                 /\ g.replies[1].type = "PREFETCH_COMPLETE"
                 /\ LET results == g.replies[1].payload.results
                    IN  /\ DOMAIN results = 1..Len(g.urls)
                        /\ \A i \in 1..Len(g.urls) :
                              /\ results[i].url = g.urls[i]
                              /\ results[i].success = (g.results[i].status = "fulfilled")
                              /\ IF results[i].success
                                 THEN results[i].error = null
                                 ELSE /\ results[i].error # null
                                      /\ results[i].error = Message(g.results[i].reason)

\* C18: PREFETCH_RESOURCES with a list of URLs replies with one result per
\* URL in the order of the list, {url, success: true, error: null} for each
\* URL whose add succeeded and {url, success: false, error: message} for
\* each whose add failed; a failing URL does not keep the others from being
\* added to the dynamic partition, and a reply is sent even when every URL
\* fails.
C18_PrefetchReportsEachUrl ==
    [][C18_AddStep]_vars /\ []C18_Reply

\* a prefetch of two URLs has replied: the first add failed, the second
\* succeeded and its response is in the dynamic partition
C18_Witness ==
    \E k \in Prefetches :
        /\ Len(msgs[k].urls) = 2
        /\ Len(msgs[k].replies) = 1
        /\ ~msgs[k].replies[1].payload.results[1].success
        /\ msgs[k].replies[1].payload.results[2].success
        /\ Resolve(msgs[k].urls[2]) \in DOMAIN caches[msgs[k].cache].entries
        /\ Resolve(msgs[k].urls[1]) \notin DOMAIN caches[msgs[k].cache].entries

(***************************************************************************)
(* C19                                                                     *)
(***************************************************************************)
Clears ==
    { k \in 1..Len(msgs) : msgs[k].type = "CLEAR_CACHE" }

\* caches.delete is called for every name CacheStorage holds, the two
\* current names included, and a deletion that resolves has removed the
\* partition of that name
C19_DeleteStep ==
    \A k \in Clears \cap (1..Len(msgs')) :
        /\ (msgs[k].state = "keys" /\ msgs'[k].state # "keys")
              => /\ msgs'[k].keys = CacheNames(caches)
                 /\ msgs'[k].deleting = CacheNames(caches)
        /\ \A name \in msgs[k].deleting \ msgs'[k].deleting :
              (msgs'[k].state # "rejected") => name \notin CacheNames(caches')

\* a CLEAR_CACHE posts nothing while its deletions are settling without a
\* failure, and never more than one reply; {success: true} is posted only
\* when every deletion has resolved, and then no partition CacheStorage
\* held when the message arrived is left; {success: false, error} is posted
\* only after a deletion failed
C19_Reply ==
    \A k \in Clears :
        LET g == msgs[k]
        IN  /\ Len(g.replies) <= 1
            /\ g.state \in {"keys", "deleting"} => g.replies = << >>
            /\ g.state = "deleting" => g.deleting # {}
            /\ g.state \in {"fulfilled", "rejected"} => Len(g.replies) = 1
            /\ g.state = "fulfilled"
                  => /\ g.replies[1] = [type |-> "CACHE_CLEARED",
                                        payload |-> [success |-> TRUE, error |-> null]]
                     /\ g.deleting = {}
                     /\ \A i \in g.existing : ~caches[i].live
            /\ g.state = "rejected"
                  => /\ g.replies[1].type = "CACHE_CLEARED"
                     /\ ~g.replies[1].payload.success
                     /\ g.replies[1].payload.error # null

\* C19: CLEAR_CACHE deletes every existing partition, the current static
\* and dynamic partitions included, and replies exactly once: {success:
\* true} after all deletions have completed, or {success: false, error}
\* when a deletion failed; after a successful reply no partition that
\* existed at the time of the command remains.
C19_ClearCacheDeletesAll ==
    [][C19_DeleteStep]_vars /\ []C19_Reply

\* a CLEAR_CACHE that found the static and the dynamic partition has
\* replied {success: true} with both deleted, and another has replied
\* {success: false, error}
C19_Witness ==
    /\ \E k \in Clears :
          /\ msgs[k].state = "fulfilled"
          /\ msgs[k].existing = {1, 2}
          /\ msgs[k].keys = {STATIC_CACHE, DYNAMIC_CACHE}
          /\ CacheNames(caches) = {}
    /\ \E k \in Clears :
          /\ msgs[k].state = "rejected"
          /\ ~msgs[k].replies[1].payload.success

(***************************************************************************)
(* C20                                                                     *)
(***************************************************************************)
Counters ==
    {"cacheHits", "cacheMisses", "networkRequests", "errors"}

Metrics ==
    { k \in 1..Len(msgs) : msgs[k].type = "GET_METRICS" }

\* no step of any listener lowers a counter
C20_NoDecrease ==
    \A c \in Counters : metrics'[c] >= metrics[c]

\* the listener of GET_METRICS posts one METRICS_RESPONSE whose payload
\* reads as the counters of that moment, and what a payload posted
\* earlier reads as is the same after every later step
C20_CopyStep ==
    /\ \A k \in Metrics :
          Read(msgs'[k].replies[1].payload, metrics')
             = Read(msgs[k].replies[1].payload, metrics)
    /\ \A k \in 1..Len(msgs') :
          (k > Len(msgs) /\ msgs'[k].type = "GET_METRICS")
          => /\ Len(msgs'[k].replies) = 1
             /\ msgs'[k].replies[1].type = "METRICS_RESPONSE"
             /\ Read(msgs'[k].replies[1].payload, metrics') = metrics
             /\ metrics' = metrics

\* the counters are 0 until the first listener runs and natural numbers
\* ever after
C20_StartAtZero ==
    /\ DOMAIN metrics = Counters
    /\ \A c \in Counters : metrics[c] \in Nat
    /\ lifecycle = "parsed" => \A c \in Counters : metrics[c] = 0

\* C20: in every sequence of install, activate, fetch, message and cleanup
\* events of one worker lifetime each of the four counters starts at 0 and
\* never decreases: no event, CLEAR_CACHE included, resets a counter, and
\* GET_METRICS replies with the current values of the counters as a copy
\* that later events do not modify.
C20_CountersOnlyGrow ==
    [][C20_NoDecrease /\ C20_CopyStep]_vars /\ []C20_StartAtZero

\* a GET_METRICS was answered with one network request counted and no
\* error, an error was counted afterwards, the payload still reads as it
\* did, and a CLEAR_CACHE sent after it has replied {success: true}
C20_Witness ==
    /\ \E k \in Metrics :
          /\ Read(msgs[k].replies[1].payload, metrics).networkRequests = 1
          /\ Read(msgs[k].replies[1].payload, metrics).errors = 0
          /\ \E j \in Clears : j > k /\ msgs[j].state = "fulfilled"
    /\ metrics.errors = 1
    /\ metrics.networkRequests = 1
    /\ Len(reqs) = 1

(***************************************************************************)
(* C21  Every error is counted                                             *)
(***************************************************************************)
\* the fetch of the background refresh of request r fails in this step
C21_RefreshFails(r) ==
    /\ reqs[r].strategy = STALE_WHILE_REVALIDATE
    /\ reqs[r].bg = "fetching"
    /\ reqs'[r].bg = "failed"

\* C21: every error of the taxonomy raises the errors counter by one; in
\* particular each failure of the background revalidation of
\* stale-while-revalidate raises metrics.errors by one.
C21_EveryErrorCounted ==
    [][\A r \in 1..Len(reqs) :
          C21_RefreshFails(r) => metrics'.errors = metrics.errors + 1]_vars

(***************************************************************************)
(* C22  Two requests of one URL in flight together                         *)
(***************************************************************************)
\* request r has returned, its background work has ended and the cache.put
\* calls it issued have landed
C22_Settled(r) ==
    /\ reqs[r].pc = "done"
    /\ reqs[r].bg \notin {"fetching", "open"}
    /\ \A p \in PutsOf(r) : p.applied

\* the network has answered every fetch request r issued with a 2xx response
C22_NetworkOk(r) ==
    reqs[r].fetches > 0 => (reqs[r].netResp # NoResponse /\ Ok(reqs[r].netResp))

\* the 2xx responses the network gave for url to the requests in flight
C22_NetworkResponses(url) ==
    { reqs[r].netResp : r \in { i \in 1..Len(reqs) : reqs[i].fetches > 0 } }
        \ {NoResponse}

\* the partitions that hold an entry of url
C22_Holding(url) ==
    { i \in DOMAIN caches : url \in DOMAIN caches[i].entries }

\* a cache.put that lands replaces the entry of its URL, whatever it was
C22_OverwriteStep ==
    \A p \in puts :
        (~p.applied /\ [p EXCEPT !.applied = TRUE] \in puts')
        => /\ Entry(DYNAMIC_CACHE, p.url)' = p.response
           /\ C22_Holding(p.url)' = {Named(caches, DYNAMIC_CACHE)}

\* when the requests have all settled and the network has answered their
\* fetches: each caller holds a response the network gave for the URL, none
\* has failed, no error is counted and the dynamic partition, alone, holds
\* one such response
C22_Outcome ==
    (/\ Len(reqs) >= 2
     /\ \A r \in 1..Len(reqs) : C22_Settled(r) /\ C22_NetworkOk(r))
    => /\ \A r \in 1..Len(reqs) :
             /\ reqs[r].hres = "fulfilled"
             /\ reqs[r].resp \in C22_NetworkResponses(reqs[r].url)
             /\ reqs[r].resp.status = 200
             /\ reqs[r].dErrs = 0
       /\ metrics.errors = 0
       /\ C22_Holding(reqs[1].url) = {Named(caches, DYNAMIC_CACHE)}
       /\ Entry(DYNAMIC_CACHE, reqs[1].url) \in C22_NetworkResponses(reqs[1].url)

C23_DeletedEntryIsMiss ==
    \A k \in 1..Len(cleanups) :
        (\E url \in cleanups[k].keys :
            url \notin DOMAIN caches[cleanups[k].cache].entries)
        => cleanups[k].state # "rejected"

(***************************************************************************)
(* C24  The error log is bounded                                           *)
(***************************************************************************)
\* the list of errors localStorage holds
C24_Stored ==
    LET item == getItem(localStorage, "pocketgnu_errors")
    IN  IF item = << >> THEN << >> ELSE JSON_parse(item[1])

\* list holds the errors logged last, in the order they were logged
C24_Recent(list) ==
    \A i \in 1..Len(list) : list[i].timestamp = logged - Len(list) + i

C24_Bounds ==
    /\ Len(errors) <= maxErrors
    /\ Len(C24_Stored) <= maxStored
    /\ C24_Recent(errors)
    /\ ~localStorage.full => C24_Recent(C24_Stored)

\* an error that is logged is added to both lists, which drop their oldest
\* error only at their bound; clearErrors leaves both empty
C24_Step ==
    /\ logged' = logged + 1
       => /\ Len(errors') = IF Len(errors) < maxErrors THEN Len(errors) + 1 ELSE maxErrors
          /\ ~localStorage.full
             => Len(C24_Stored') = IF Len(C24_Stored) < maxStored
                                   THEN Len(C24_Stored) + 1 ELSE maxStored
    /\ clearErrors
       => /\ errors' = << >>
          /\ getItem(localStorage, "pocketgnu_errors")' = << >>

\* C24: the in-memory list of errors never holds more than 50 entries and
\* the list stored under 'pocketgnu_errors' never more than 20, each keeping
\* the most recent errors in logging order; clearErrors empties both.
C24_ErrorLogBounded ==
    [][C24_Step]_vars /\ []C24_Bounds

\* more than 50 errors were logged: the list holds the last 50 and
\* localStorage the last 20
C24_Witness ==
    /\ logged > maxErrors
    /\ Len(errors) = maxErrors
    /\ errors[1].timestamp = logged - maxErrors + 1
    /\ Len(C24_Stored) = maxStored
    /\ C24_Stored[1].timestamp = logged - maxStored + 1

(***************************************************************************)
(* C25  respondWith always receives a Response                             *)
(***************************************************************************)
\* C25: the promise given to respondWith never resolves to null or
\* undefined: every answered request has a Response, and a
\* stale-while-revalidate request with no cached entry whose fetch failed
\* has the 408 response and is counted in errors.
C25_AlwaysAResponse ==
    \A r \in 1..Len(reqs) :
        (reqs[r].via = "fetch" /\ reqs[r].pc = "done")
        => /\ reqs[r].resp # NoResponse
           /\ (/\ reqs[r].strategy = STALE_WHILE_REVALIDATE
               /\ reqs[r].cachedResponse = NoResponse
               /\ reqs[r].bg = "failed")
              => (reqs[r].resp = TimeoutResponse /\ reqs[r].dErrs = 1)

(***************************************************************************)
(* C26  networkRequests counts the fetches                                 *)
(***************************************************************************)
RECURSIVE C26_Fetches(_)
\* the number of fetch calls the first n requests have issued
C26_Fetches(n) ==
    IF n = 0 THEN 0 ELSE C26_Fetches(n - 1) + reqs[n].fetches

\* C26: networkRequests equals the number of fetches the strategy handlers
\* have issued: each fetch of cacheFirst, networkFirst, staleWhileRevalidate
\* (the background refresh on a cache hit included) and networkOnly is
\* counted exactly once.
C26_EveryFetchCounted ==
    /\ metrics.networkRequests = C26_Fetches(Len(reqs))
    /\ \A r \in 1..Len(reqs) : reqs[r].dNet = reqs[r].fetches

(***************************************************************************)
(* C27  safeAsyncRetry                                                     *)
(***************************************************************************)
RECURSIVE C27_Pow2(_)
C27_Pow2(n) ==
    IF n = 0 THEN 1 ELSE 2 * C27_Pow2(n - 1)

\* C27: safeAsyncRetry calls asyncFunc at most attempts times, one call at
\* a time; it resolves with the result of the first call that succeeds and
\* calls no more; when every call fails it rejects with the last error; the
\* wait before retry k+1 is delay * 2^(k-1), and there is no wait after the
\* final failed attempt.
C27_RetryContract ==
    /\ retry.calls <= retry.attempts
    /\ retry.inflight <= 1
    /\ retry.pc = "resolved"
       => (retry.result = retry.calls /\ retry.failed = retry.calls - 1)
    /\ (retry.pc = "rejected" /\ retry.attempts > 0)
       => (retry.calls = retry.attempts
           /\ retry.thrown = [kind |-> "lastError", call |-> retry.attempts])
    /\ \A k \in 1..Len(retry.waits) :
          retry.waits[k] = retry.delay0 * C27_Pow2(k - 1)
    /\ Len(retry.waits) <= Max(retry.attempts - 1, 0)

(***************************************************************************)
(* C28  The terminal animation makes progress                              *)
(***************************************************************************)
\* the animation runs: it was started and not cleaned up
C28_Running ==
    terminal.pc = "started"

\* C28: once started, the animation types each command character by
\* character and goes on to the next command: every command of the list is
\* eventually displayed in full (unless the animation is cleaned up), and at
\* most one timer of the animation is pending at a time.
C28_AnimationProgresses ==
    /\ [](Cardinality(terminal.timers) <= 1)
    /\ \A c \in 1..Len(commands) :
          C28_Running ~> (terminal.textContent = commands[c] \/ ~C28_Running)

(***************************************************************************)
(* C29  The strategies of intercepted requests                             *)
(***************************************************************************)
\* C29: getCacheStrategy returns cache-first, stale-while-revalidate or
\* network-first for every URL, so an intercepted request never runs
\* cacheOnly or networkOnly and never fails with 'Resource not in cache'.
C29_ThreeStrategiesOnly ==
    /\ \A url \in ClassifyURLs \cup FetchURLs :
          getCacheStrategy(url) \in {CACHE_FIRST, STALE_WHILE_REVALIDATE, NETWORK_FIRST}
    /\ \A r \in 1..Len(reqs) :
          reqs[r].via = "fetch"
          => /\ reqs[r].strategy \in {CACHE_FIRST, STALE_WHILE_REVALIDATE, NETWORK_FIRST}
             /\ reqs[r].pc \notin {"co_match", "no_fetch"}
             /\ reqs[r].error # "Resource not in cache"

\* two intercepted requests of different strategies, one of which has
\* failed, with a network error, and was answered by the 408 response
C29_Witness ==
    /\ Len(reqs) = 2
    /\ reqs[1].via = "fetch" /\ reqs[2].via = "fetch"
    /\ reqs[1].strategy # reqs[2].strategy
    /\ \E r \in 1..2 : /\ reqs[r].hres = "rejected"
                       /\ reqs[r].error = "network"
                       /\ reqs[r].resp = TimeoutResponse

(***************************************************************************)
(* C30  Preferences are stored as set and applied as stored                *)
(***************************************************************************)
\* saveUserPreferences stores the theme and the states of the two boxes
C30_SaveStep ==
    (saveUserPreferences /\ ux.dialog /\ ~localStorage.full)
    => safeLocalStorageGet(localStorage)' =
          << [theme |-> ux.currentTheme,
              compactLayout |-> ux.compactLayout,
              showAnimations |-> ux.showAnimations] >>

\* loadUserPreferences adds no-animations when showAnimations is stored
\* false, and does not add it when it is stored true
C30_LoadStep ==
    (loadUserPreferences /\ safeLocalStorageGet(localStorage) # << >>)
    => ("no-animations" \in ux'.classList)
          <=> (\/ ~safeLocalStorageGet(localStorage)[1].showAnimations
               \/ "no-animations" \in ux.classList)

\* C30: saving and reloading the preferences round-trips 'Enable
\* Animations': saved with the box unchecked, showAnimations is stored false
\* and the following loadUserPreferences adds the class no-animations; saved
\* with the box checked, it is stored true and the class is not added; the
\* stored theme and compactLayout are the current theme and the state of
\* #compact-layout.
C30_PreferencesRoundTrip ==
    [][C30_SaveStep /\ C30_LoadStep]_vars

====
